---- MODULE Spec2Model ----
(***************************************************************************)
(* A model of the reporting core of sr-ops-suite: the business calendar    *)
(* (scripts/business_calendar.py), the window expansion done by the daily  *)
(* sales entry points (scripts/daily_sales_report.py main and              *)
(* services/report_job_worker.py execute_daily_sales), the strict          *)
(* post-filter of the order fetchers, the product enrichment               *)
(* (fetch_product_details), the four-bucket aggregation                    *)
(* (aggregate_products, also called twice on the same arguments), the      *)
(* risk summary of the unfulfilled line item report, the calendar-driven   *)
(* report attempted day after day, the job worker's loop                   *)
(* (services/report_job_worker.py worker_loop and process_job) and the     *)
(* post-filter of fetch_orders_since_lop                                   *)
(* (scripts/lop_unfulfilled_report.py).                                    *)
(*                                                                         *)
(* Dates are day numbers counted from 1970-01-01 (proleptic Gregorian),    *)
(* instants are wall-clock seconds in the report's local zone counted from *)
(* 1970-01-01T00:00:00, strings that the code inspects character by        *)
(* character are sequences of one-character strings.                       *)
(***************************************************************************)
EXTENDS Integers, Sequences, FiniteSets, TLC

VARIABLES
    \* ---- calendar-driven / override run of a daily sales entry point ----
    entry,          \* "cli" (daily_sales_report.main) or "worker" (execute_daily_sales)
    today,          \* today_et.date()
    arg_start,      \* --start-date / parameters["start_date"], or None
    arg_end,        \* --end-date / parameters["end_date"], or None
    pc,             \* position of the entry point
    is_open,        \* result of the is_business_day(today) call, or None
    window,         \* result of the get_reporting_window(today) call, or None
    start_date,     \* the entry point's local start_date
    end_date,       \* the entry point's local end_date
    start_et,       \* window start handed to the fetcher
    end_et,         \* window end handed to the fetcher
    \* ---- aggregate_products ----
    product_details,    \* the enrichment map: product id -> snapshot or None
    main_sales,         \* bucket: product id -> entry or None (not a key)
    backorder_sales,
    oos_sales,
    preorder_sales,
    apc,                \* "idle", "loop" (inside the for loops), "done", "raised"
    cur_order,          \* the order of the outer loop, or None before the first
    n_orders,           \* orders iterated so far
    n_items,            \* line items iterated so far
    last,               \* the locals of the latest loop iteration, or None
    seen_pids,          \* product ids of the line items that were not skipped
    qty_in,             \* product id -> summed quantity of its line items that were not skipped
    \* ---- fetch_24h_orders / fetch_unfulfilled_line_items ----
    fetcher,            \* "daily" (fetch_24h_orders) or "weekly" (fetch_unfulfilled_line_items)
    f_start,            \* start_et / start_utc
    f_end,              \* end_et / end_utc
    max_orders,         \* the weekly fetcher's max_orders, or None
    fpc,                \* "idle", "request", "edges", "done" (returned), "raised",
                        \* "aggregating" (the daily main went on with the records)
    after,              \* the cursor of the next request, or None
    pages,              \* pages received so far
    edges_seen,         \* edges iterated so far, over all pages
    page_len,           \* len(edges) of the current page
    page_left,          \* edges of the current page not yet iterated
    has_next,           \* pageInfo.hasNextPage of the current page
    last_cursor,        \* cursor of the latest edge iterated, or None
    records,            \* records (daily: order nodes) or rows (weekly: line item rows)
    total_orders_seen,  \* the weekly fetcher's counter
    drift,              \* orders rejected by the strict post-filter
    last_edge,          \* the outcome of the latest edge iterated and, if the order
                        \* was accepted, its line items; None before the first
    f_error,            \* the exception that left the fetcher, or None
    \* ---- weekly_unfulfilled_line_items_report.main after the fetch ----
    rpc,                \* "idle", "fetched", "snapshots", "attached", "done"
    fetched_rows,       \* the rows fetch_unfulfilled_line_items returned
    rows,               \* main's rows
    product_nodes,      \* product id -> the node the products query answers, or None
    product_cache,      \* product id -> ProductSnapshot
    summary_rows,       \* the result of compute_product_age_summary
    \* ---- daily_sales_report.main from fetch_product_details on ----
    epc,                \* "idle", "enrich" (inside fetch_product_details), "returned",
                        \* "aggregated" (aggregate_products was called), "raised"
    e_ids,              \* product_ids handed to fetch_product_details
    e_pending,          \* the rest of sorted(product_ids)
    e_details,          \* the details dict: product id -> detail or None (not a key)
    e_answers,          \* product id -> the answer its request got, or None (not asked)
    \* ---- two calls of aggregate_products on the same arguments ----
    t_orders,           \* the orders argument
    t_run,              \* 0 (idle), 1 (first call), 2 (second call)
    t_oi,               \* index in orders of the outer loop
    t_ii,               \* line items of that order already iterated
    t_first,            \* what the first call returned, or None
    t_inputs0,          \* the arguments as they were before the first call
    \* ---- the calendar-driven report attempted on consecutive days ----
    prev_end_et,        \* end_et of the latest earlier run that executed, or None
    \* ---- report_job_worker: worker_loop and process_job ----
    wpc,                \* position of the worker: "claim", "sleep", and inside process_job
                        \* "start", "lookup", "execute", "write_success", "except"
    j_report,           \* job id -> report_id of the job
    j_unclaimed,        \* ids of the jobs the queue still holds
    j_row,              \* job id -> the job's row in reports.report_jobs
    cur_job,            \* the job process_job works on, or None
    w_result,           \* process_job's local result
    w_error,            \* str(e) of the exception the handler caught, or None
    j_exec,             \* job id -> "none", "returned" or "raised": how its executor ended
    j_writes,           \* job id -> the statuses process_job wrote for it, in order
    j_write_failed,     \* job id -> a status write of process_job raised
    j_end,              \* job id -> "none", "returned" or "raised": how process_job ended
    \* ---- lop_unfulfilled_report.fetch_orders_since_lop after its fetch loop ----
    lpc,                \* "idle", "filter" (inside the post-filter loop), "done", "raised"
    lop_dt,             \* the parsed createdAt of the most recent LOP order
    collected,          \* the orders the fetch loop collected
    l_index,            \* orders of collected already iterated
    strict_collected    \* the list that is returned

calVars == <<entry, today, arg_start, arg_end, pc, is_open, window,
             start_date, end_date, start_et, end_et>>

aggVars == <<product_details, main_sales, backorder_sales, oos_sales, preorder_sales,
             apc, cur_order, n_orders, n_items, last, seen_pids, qty_in>>

fetchVars == <<fetcher, f_start, f_end, max_orders, fpc, after, pages, edges_seen,
               page_len, page_left, has_next, last_cursor, records, total_orders_seen, drift,
               last_edge, f_error>>

riskVars == <<rpc, fetched_rows, rows, product_nodes, product_cache, summary_rows>>

enrichVars == <<epc, e_ids, e_pending, e_details, e_answers>>

twiceVars == <<t_orders, t_run, t_oi, t_ii, t_first, t_inputs0>>

seriesVars == <<prev_end_et>>

jobVars == <<wpc, j_report, j_unclaimed, j_row, cur_job, w_result, w_error,
             j_exec, j_writes, j_write_failed, j_end>>

lopVars == <<lpc, lop_dt, collected, l_index, strict_collected>>

vars == <<calVars, aggVars, fetchVars, riskVars, enrichVars, twiceVars, seriesVars, jobVars, lopVars>>

\* the variables that a run of one component leaves alone
notCal == <<aggVars, fetchVars, riskVars, enrichVars, twiceVars, seriesVars, jobVars, lopVars>>
notAgg == <<calVars, fetchVars, riskVars, enrichVars, twiceVars, seriesVars, jobVars, lopVars>>
notFetch == <<calVars, aggVars, riskVars, enrichVars, twiceVars, seriesVars, jobVars, lopVars>>
notRisk == <<calVars, aggVars, fetchVars, enrichVars, twiceVars, seriesVars, jobVars, lopVars>>
notEnrich == <<calVars, aggVars, fetchVars, riskVars, twiceVars, seriesVars, jobVars, lopVars>>
notTwice == <<calVars, fetchVars, riskVars, enrichVars, seriesVars, jobVars, lopVars>>
notSeries == <<aggVars, fetchVars, riskVars, enrichVars, twiceVars, jobVars, lopVars>>
notJobs == <<calVars, aggVars, fetchVars, riskVars, enrichVars, twiceVars, seriesVars, lopVars>>
notLop == <<calVars, aggVars, fetchVars, riskVars, enrichVars, twiceVars, seriesVars, jobVars>>

\* Python's None and a present value of an optional field
None == <<>>
Some(x) == <<x>>
Val(o) == o[1]

-----------------------------------------------------------------------------
(* datetime.date: civil calendar arithmetic                                *)

\* date(y, m, d) as a day number
DaysFromCivil(y, m, d) ==
    LET yy  == IF m <= 2 THEN y - 1 ELSE y
        era == yy \div 400
        yoe == yy - era * 400
        mp  == IF m > 2 THEN m - 3 ELSE m + 9
        doy == (153 * mp + 2) \div 5 + d - 1
        doe == yoe * 365 + yoe \div 4 - yoe \div 100 + doy
    IN  era * 146097 + doe - 719468

\* d.year
YearOf(n) ==
    LET z   == n + 719468
        era == z \div 146097
        doe == z - era * 146097
        yoe == (doe - doe \div 1460 + doe \div 36524 - doe \div 146096) \div 365
        doy == doe - (365 * yoe + yoe \div 4 - yoe \div 100)
        mp  == (5 * doy + 2) \div 153
        m   == IF mp < 10 THEN mp + 3 ELSE mp - 9
    IN  yoe + era * 400 + (IF m <= 2 THEN 1 ELSE 0)

\* d.weekday(): Monday is 0, Sunday is 6 (1970-01-01 was a Thursday)
Weekday(n) == (n + 3) % 7

\* datetime(d.year, d.month, d.day, hh, mm, ss, tzinfo=tz_et)
Instant(d, hh, mm, ss) == d * 86400 + hh * 3600 + mm * 60 + ss

-----------------------------------------------------------------------------
(* business_calendar.py: static calendar data                              *)

SPECIAL_OPEN_SUNDAYS_2025 ==
    { DaysFromCivil(2025, 12, 7),
      DaysFromCivil(2025, 12, 14),
      DaysFromCivil(2025, 12, 21) }

HOLIDAY_CLOSURES_2025 ==
    { DaysFromCivil(2025, 5, 24),
      DaysFromCivil(2025, 5, 26),
      DaysFromCivil(2025, 7, 4),
      DaysFromCivil(2025, 9, 1),
      DaysFromCivil(2025, 11, 28),
      DaysFromCivil(2025, 12, 25),
      DaysFromCivil(2025, 12, 26) }

SPECIAL_OPEN_SUNDAYS_2026 ==
    { DaysFromCivil(2026, 12, 6),
      DaysFromCivil(2026, 12, 13),
      DaysFromCivil(2026, 12, 20) }

HOLIDAY_CLOSURES_2026 ==
    { DaysFromCivil(2026, 1, 1),
      DaysFromCivil(2026, 5, 23),
      DaysFromCivil(2026, 5, 24),
      DaysFromCivil(2026, 7, 4),
      DaysFromCivil(2026, 9, 7),
      DaysFromCivil(2026, 11, 26),
      DaysFromCivil(2026, 12, 25),
      DaysFromCivil(2026, 12, 26) }

\* the holiday_set chosen by is_business_day for d.year
holiday_set(year) ==
    IF year = 2025 THEN HOLIDAY_CLOSURES_2025
    ELSE IF year = 2026 THEN HOLIDAY_CLOSURES_2026
    ELSE {}

\* the special_open_sundays chosen by is_business_day for d.year
special_open_sundays(year) ==
    IF year = 2025 THEN SPECIAL_OPEN_SUNDAYS_2025
    ELSE IF year = 2026 THEN SPECIAL_OPEN_SUNDAYS_2026
    ELSE {}

\* mutant: the holiday closures are not consulted
is_business_day_NoHoliday(d) ==
    IF Weekday(d) = 6 THEN d \in special_open_sundays(YearOf(d))
    ELSE Weekday(d) \in {0, 1, 2, 3, 4, 5}

is_business_day(d) ==
    IF d \in holiday_set(YearOf(d)) THEN FALSE
    ELSE IF Weekday(d) = 6 THEN d \in special_open_sundays(YearOf(d))
    ELSE Weekday(d) \in {0, 1, 2, 3, 4, 5}

RECURSIVE WalkBack(_)
\* the while loop of find_last_open_day
WalkBack(cursor) ==
    IF is_business_day(cursor) THEN cursor ELSE WalkBack(cursor - 1)

\* mutant: the walk starts on today instead of the day before
find_last_open_day_FromToday(t) == WalkBack(t)

\* mutant: the walk starts a week before today
find_last_open_day_FromLastWeek(t) == WalkBack(t - 7)

find_last_open_day(t) == WalkBack(t - 1)

\* mutant: the window ends on the last open day
get_reporting_window_EndsOnStart(t) ==
    [start |-> find_last_open_day(t), end |-> find_last_open_day(t)]

get_reporting_window(t) ==
    [start |-> find_last_open_day(t), end |-> t - 1]

-----------------------------------------------------------------------------
(* Strings that the code inspects: sequences of one-character strings      *)

UPPER == <<"A","B","C","D","E","F","G","H","I","J","K","L","M",
           "N","O","P","Q","R","S","T","U","V","W","X","Y","Z">>
LOWER == <<"a","b","c","d","e","f","g","h","i","j","k","l","m",
           "n","o","p","q","r","s","t","u","v","w","x","y","z">>

\* str.lower() on one character
LowerChar(c) ==
    IF \E i \in 1..Len(UPPER) : UPPER[i] = c
    THEN LOWER[CHOOSE i \in 1..Len(UPPER) : UPPER[i] = c]
    ELSE c

\* str.lower()
Lower(str) == [i \in 1..Len(str) |-> LowerChar(str[i])]

\* sub in str
Contains(str, sub) ==
    \E i \in 1..(Len(str) - Len(sub) + 1) : SubSeq(str, i, i + Len(sub) - 1) = sub

\* str.startswith(prefix)
StartsWith(str, prefix) ==
    /\ Len(prefix) <= Len(str)
    /\ SubSeq(str, 1, Len(prefix)) = prefix

\* x in list
InList(x, list) == \E i \in 1..Len(list) : list[i] = x

-----------------------------------------------------------------------------
(* daily_sales_report.py: aggregate_products                               *)

BLACKLISTED_PRODUCT_IDS ==
    { "gid://shopify/Product/5238890889349",
      "gid://shopify/Product/6544636477573",
      "gid://shopify/Product/5238923001989",
      "gid://shopify/Product/6604620202117",
      "gid://shopify/Product/6589468967045",
      "gid://shopify/Product/6830824489093" }

\* the literal "cookbook club" of the blacklist test
COOKBOOK_CLUB == <<"c","o","o","k","b","o","o","k"," ","c","l","u","b">>

\* weekly_maintenance_report.BLACKLISTED_TITLE_PREFIXES[0], "Cookbook Club"
BLACKLISTED_TITLE_PREFIX == <<"C","o","o","k","b","o","o","k"," ","C","l","u","b">>

\* pdetail = product_details.get(pid, {}) and the six pdetail.get(...) lookups
resolve_details(details, product) ==
    LET pdetail == details[product.id] IN
    IF pdetail = None
    THEN [title |-> product.title, collections |-> <<>>,
          available |-> product.totalInventory, incoming |-> 0,
          price |-> None, vendor |-> ""]
    ELSE [title |-> Val(pdetail).title, collections |-> Val(pdetail).collections,
          available |-> Val(pdetail).available, incoming |-> Val(pdetail).incoming,
          price |-> Val(pdetail).price, vendor |-> Val(pdetail).vendor]

\* mutant: the payload's totalInventory is preferred to the enrichment snapshot's
resolve_details_PayloadFirst(details, product) ==
    LET pdetail == details[product.id] IN
    IF pdetail = None
    THEN [title |-> product.title, collections |-> <<>>,
          available |-> product.totalInventory, incoming |-> 0,
          price |-> None, vendor |-> ""]
    ELSE [title |-> Val(pdetail).title, collections |-> Val(pdetail).collections,
          available |-> product.totalInventory, incoming |-> Val(pdetail).incoming,
          price |-> Val(pdetail).price, vendor |-> Val(pdetail).vendor]

\* collection titles: "Preorder", "Cookbooks", "Preorder Specials"
PREORDER == <<"P","r","e","o","r","d","e","r">>
COOKBOOKS == <<"C","o","o","k","b","o","o","k","s">>
PREORDER_SPECIALS == <<"P","r","e","o","r","d","e","r"," ","S","p","e","c","i","a","l","s">>

\* is_preorder = "Preorder" in collections
is_preorder_daily(collections) == InList(PREORDER, collections)

\* pid in BLACKLISTED_PRODUCT_IDS or "cookbook club" in title.lower()
is_excluded(pid, title) ==
    \/ pid \in BLACKLISTED_PRODUCT_IDS
    \/ Contains(Lower(title), COOKBOOK_CLUB)

\* attrs = {a["key"]: a["value"] for a in customAttributes}; attrs.get(key)
attrs_get(customAttributes, key) ==
    LET hits == {i \in 1..Len(customAttributes) : customAttributes[i].key = key} IN
    IF hits = {} THEN None
    ELSE Some(customAttributes[CHOOSE i \in hits : \A j \in hits : j <= i].value)

\* attr_label = ", ".join(label_parts)
attr_label(customAttributes) ==
    LET signed    == attrs_get(customAttributes, "_signed") = Some("true")
        bookplate == attrs_get(customAttributes, "_bookplate") = Some("true")
    IN  IF signed /\ bookplate THEN "Signed, Bookplate"
        ELSE IF signed THEN "Signed"
        ELSE IF bookplate THEN "Bookplate"
        ELSE ""

\* mutant: only the source name decides
is_online_SourceOnly(order) == order.sourceName = Some("web")

\* is_online = (source == "web") or (handle == "online_store")
is_online(order) ==
    \/ order.sourceName = Some("web")
    \/ (order.channel # None /\ Val(order.channel).handle = Some("online_store"))

\* quantity_target
quantity_target(order) == IF is_online(order) THEN "ol_sold" ELSE "pos_sold"

\* mutant: zero inventory is treated like positive inventory
bucket_for_ZeroIsMain(preorder, available) ==
    IF preorder THEN "preorder"
    ELSE IF available # None
         THEN IF Val(available) < 0 THEN "backorder" ELSE "main"
         ELSE "main"

\* the bucket selection, lines 429-441
bucket_for(preorder, available) ==
    IF preorder THEN "preorder"
    ELSE IF available # None
         THEN IF Val(available) < 0 THEN "backorder"
              ELSE IF Val(available) = 0 THEN "out_of_stock"
              ELSE "main"
         ELSE "main"

\* Python truthiness of an optional string
Truthy(o) == o # None /\ Val(o) # ""

\* the entry created on first sight, lines 445-457
new_entry(d, variant, label) ==
    [title |-> d.title, vendor |-> d.vendor,
     author |-> IF Truthy(variant.sku) THEN Val(variant.sku) ELSE "",
     collections |-> d.collections,
     isbn |-> IF Truthy(variant.barcode) THEN Val(variant.barcode) ELSE "NO BARCODE",
     available |-> d.available, incoming |-> d.incoming, price |-> d.price,
     ol_sold |-> 0, pos_sold |-> 0, attributes |-> label]

\* mutant: the refresh takes sku and barcode as they come, empty or not
refreshed_entry_Blanks(bucket, d, variant) ==
    [bucket EXCEPT !.available = d.available, !.incoming = d.incoming,
                   !.collections = d.collections, !.title = d.title,
                   !.price = d.price, !.vendor = d.vendor,
                   !.author = IF variant.sku # None THEN Val(variant.sku) ELSE "",
                   !.isbn = IF variant.barcode # None THEN Val(variant.barcode) ELSE ""]

\* the refresh of an existing entry, lines 460-470
refreshed_entry(bucket, d, variant) ==
    [bucket EXCEPT !.available = d.available, !.incoming = d.incoming,
                   !.collections = d.collections, !.title = d.title,
                   !.price = d.price, !.vendor = d.vendor,
                   !.author = IF Truthy(variant.sku) THEN Val(variant.sku) ELSE @,
                   !.isbn = IF Truthy(variant.barcode) THEN Val(variant.barcode) ELSE @]

\* mutant: the quantity overwrites the counter instead of adding to it
add_quantity_Overwrite(e, counter, quantity) ==
    IF counter = "ol_sold" THEN [e EXCEPT !.ol_sold = quantity]
                           ELSE [e EXCEPT !.pos_sold = quantity]

\* target[pid][quantity_target] += item["quantity"]
add_quantity(e, counter, quantity) ==
    IF counter = "ol_sold" THEN [e EXCEPT !.ol_sold = @ + quantity]
                           ELSE [e EXCEPT !.pos_sold = @ + quantity]

\* mutant: the refresh takes the label of the current line item as well
upsert_Relabels(target, pid, d, variant, label, counter, quantity) ==
    LET e == IF target[pid] = None THEN new_entry(d, variant, label)
             ELSE [refreshed_entry(Val(target[pid]), d, variant) EXCEPT !.attributes = label]
    IN  [target EXCEPT ![pid] = Some(add_quantity(e, counter, quantity))]

\* lines 443-472 on one bucket: create or refresh the entry, then add
upsert(target, pid, d, variant, label, counter, quantity) ==
    LET e == IF target[pid] = None THEN new_entry(d, variant, label)
             ELSE refreshed_entry(Val(target[pid]), d, variant)
    IN  [target EXCEPT ![pid] = Some(add_quantity(e, counter, quantity))]

-----------------------------------------------------------------------------
(* Inputs of aggregate_products                                            *)

\* orders iterated by one run
MaxOrders == 2
\* line items iterated by one run, over all orders
MaxLineItems == 2

P1 == "gid://shopify/Product/1001"
P2 == "gid://shopify/Product/1002"
P3 == "gid://shopify/Product/1003"
P4 == "gid://shopify/Product/1004"
\* one of the blacklisted product ids
PB == "gid://shopify/Product/5238890889349"

Products == {P1, P2, P3, P4, PB}

T_SALT == <<"S","a","l","t">>
T_RICE == <<"R","i","c","e">>
T_GIFT == <<"G","i","f","t">>
\* "My Cookbook Club": holds the blacklisted text without starting with it
T_CLUB_INFIX == <<"M","y"," ","C","o","o","k","b","o","o","k"," ","C","l","u","b">>
\* "COOKBOOK Club May": starts with the blacklisted text in another case
T_CLUB_PREFIX == <<"C","O","O","K","B","O","O","K"," ","C","l","u","b"," ","M","a","y">>

\* totalInventory / available figures: unknown, backordered, zero, in stock
Avail == {None, Some(-3), Some(0), Some(2)}

\* quantities of a line item
Quantities == {1, 2}

\* a line item of the orders query
LineItem(sku, barcode, id, title, inventory, quantity, attrs) ==
    [variant |-> Some([sku |-> sku, barcode |-> barcode,
                       product |-> Some([id |-> id, title |-> title,
                                         totalInventory |-> inventory])]),
     quantity |-> quantity, customAttributes |-> attrs]

\* line items as the orders query returns them: two products with plain titles
\* in every inventory state, three products the blacklist is about, a signed
\* copy, a copy with a bookplate and an empty sku under another title, a
\* signed copy with a bookplate, another sku and an empty barcode, a line item
\* without variant and a variant without product
LineItems ==
    { LineItem(Some("Nosrat"), Some("9781476753836"), P1, T_SALT, a, q, <<>>) :
      a \in Avail, q \in Quantities }
    \cup
    { LineItem(None, None, P2, T_RICE, a, 1, <<>>) : a \in Avail }
    \cup
    { LineItem(Some("Smith"), Some(""), P3, T_CLUB_INFIX, Some(2), 2, <<>>),
      LineItem(None, None, P4, T_CLUB_PREFIX, Some(2), 2, <<>>),
      LineItem(Some("Card"), None, PB, T_GIFT, Some(2), 2, <<>>),
      LineItem(Some("Nosrat"), Some("9781476753836"), P1, T_SALT, Some(2), 1,
               <<[key |-> "_signed", value |-> "true"]>>),
      LineItem(Some(""), None, P1, T_GIFT, Some(2), 1,
               <<[key |-> "_signed", value |-> "false"],
                 [key |-> "_bookplate", value |-> "true"]>>),
      LineItem(Some("Samin"), Some(""), P1, T_SALT, None, 1,
               <<[key |-> "_signed", value |-> "true"],
                 [key |-> "_bookplate", value |-> "true"]>>),
      [variant |-> None, quantity |-> 1, customAttributes |-> <<>>],
      [variant |-> Some([sku |-> None, barcode |-> None, product |-> None]),
       quantity |-> 1, customAttributes |-> <<>>] }

\* sourceName and channel of an order
OrderHeaders ==
    { [sourceName |-> Some("web"), channel |-> None],
      [sourceName |-> Some("pos"), channel |-> Some([handle |-> Some("online_store")])],
      [sourceName |-> Some("pos"), channel |-> Some([handle |-> Some("pos")])],
      [sourceName |-> None, channel |-> None] }

\* a snapshot as fetch_product_details builds it, lines 357-364
Snapshot(title, available, collections) ==
    [title |-> title, vendor |-> "Scribner", available |-> available,
     collections |-> collections, incoming |-> 4, price |-> Some("35.00")]

\* the snapshots fetch_product_details returns for P1
Snapshots ==
    { Snapshot(T_SALT, a, c) : a \in Avail, c \in {<<>>, <<COOKBOOKS, PREORDER>>} }
    \cup
    { Snapshot(T_SALT, Some(2), <<PREORDER_SPECIALS>>),
      Snapshot(T_CLUB_PREFIX, Some(2), <<>>) }

\* enrichment maps: P1 may be enriched, the other products are not
EnrichmentMaps ==
    { [p \in Products |-> IF p = P1 THEN s ELSE None] :
      s \in {None} \cup {Some(x) : x \in Snapshots} }

EmptyBucket == [p \in Products |-> None]

BucketNames == {"main", "backorder", "out_of_stock", "preorder"}

\* the bucket of a name, in the current state
Bucket(name) ==
    CASE name = "main" -> main_sales
      [] name = "backorder" -> backorder_sales
      [] name = "out_of_stock" -> oos_sales
      [] name = "preorder" -> preorder_sales

AggIdle ==
    /\ product_details = None
    /\ main_sales = None
    /\ backorder_sales = None
    /\ oos_sales = None
    /\ preorder_sales = None
    /\ apc = "idle"
    /\ cur_order = None
    /\ n_orders = 0
    /\ n_items = 0
    /\ last = None
    /\ seen_pids = {}
    /\ qty_in = None

\* aggregate_products(orders, product_details), lines 370-374
AggInit ==
    /\ product_details \in EnrichmentMaps
    /\ main_sales = EmptyBucket
    /\ backorder_sales = EmptyBucket
    /\ oos_sales = EmptyBucket
    /\ preorder_sales = EmptyBucket
    /\ apc = "loop"
    /\ cur_order = None
    /\ n_orders = 0
    /\ n_items = 0
    /\ last = None
    /\ seen_pids = {}
    /\ qty_in = [p \in Products |-> 0]

\* for order in orders: the next order of the sequence, line 376-377
AggNextOrder ==
    /\ apc = "loop"
    /\ n_orders < MaxOrders
    /\ \E o \in OrderHeaders : cur_order' = Some(o)
    /\ n_orders' = n_orders + 1
    /\ UNCHANGED <<product_details, main_sales, backorder_sales, oos_sales, preorder_sales,
                   apc, n_items, last, seen_pids, qty_in>>
    /\ UNCHANGED notAgg

\* the body of the inner loop for one line item of an order, lines 379-472
LineItemStep(order, item) ==
    IF item.variant = None
    THEN /\ last' = Some([item |-> item, order |-> order, outcome |-> "no_variant",
                          target |-> "", counter |-> ""])
         /\ UNCHANGED <<main_sales, backorder_sales, oos_sales, preorder_sales,
                        apc, seen_pids, qty_in>>
    ELSE IF Val(item.variant).product = None
    THEN /\ apc' = "raised"
         /\ last' = Some([item |-> item, order |-> order, outcome |-> "raised",
                          target |-> "", counter |-> ""])
         /\ UNCHANGED <<main_sales, backorder_sales, oos_sales, preorder_sales,
                        seen_pids, qty_in>>
    ELSE LET variant == Val(item.variant)
             product == Val(variant.product)
             pid     == product.id
             d       == resolve_details(product_details, product)
             label   == attr_label(item.customAttributes)
             counter == quantity_target(order)
             target  == bucket_for(is_preorder_daily(d.collections), d.available)
         IN  IF is_excluded(pid, d.title)
             THEN /\ last' = Some([item |-> item, order |-> order,
                                   outcome |-> "excluded", target |-> "", counter |-> ""])
                  /\ UNCHANGED <<main_sales, backorder_sales, oos_sales, preorder_sales,
                                 apc, seen_pids, qty_in>>
             ELSE /\ main_sales' = IF target = "main"
                        THEN upsert(main_sales, pid, d, variant, label, counter, item.quantity)
                        ELSE main_sales
                  /\ backorder_sales' = IF target = "backorder"
                        THEN upsert(backorder_sales, pid, d, variant, label, counter, item.quantity)
                        ELSE backorder_sales
                  /\ oos_sales' = IF target = "out_of_stock"
                        THEN upsert(oos_sales, pid, d, variant, label, counter, item.quantity)
                        ELSE oos_sales
                  /\ preorder_sales' = IF target = "preorder"
                        THEN upsert(preorder_sales, pid, d, variant, label, counter, item.quantity)
                        ELSE preorder_sales
                  /\ last' = Some([item |-> item, order |-> order,
                                   outcome |-> "added", target |-> target, counter |-> counter])
                  /\ seen_pids' = seen_pids \cup {pid}
                  /\ qty_in' = [qty_in EXCEPT ![pid] = @ + item.quantity]
                  /\ UNCHANGED apc

\* one iteration of the inner loop, on the next line item of the current order
AggLineItem ==
    /\ apc = "loop"
    /\ cur_order # None
    /\ n_items < MaxLineItems
    /\ n_items' = n_items + 1
    /\ \E item \in LineItems : LineItemStep(Val(cur_order), item)
    /\ UNCHANGED <<product_details, cur_order, n_orders>>
    /\ UNCHANGED notAgg

\* the orders are exhausted: return main_sales, backorder_sales, oos_sales, preorder_sales
AggReturn ==
    /\ apc = "loop"
    /\ apc' = "done"
    /\ UNCHANGED <<product_details, main_sales, backorder_sales, oos_sales, preorder_sales,
                   cur_order, n_orders, n_items, last, seen_pids, qty_in>>
    /\ UNCHANGED notAgg

AggNext ==
    \/ AggNextOrder
    \/ AggLineItem
    \/ AggReturn


-----------------------------------------------------------------------------
(* aggregate_products called twice on the same orders and enrichment map   *)

\* orders of one aggregate_products call in these runs
MaxTwiceOrders == 2

\* an order node: sourceName, channel and its line items
Order(header, items) ==
    [sourceName |-> header.sourceName, channel |-> header.channel, lineItems |-> items]

H_WEB == [sourceName |-> Some("web"), channel |-> None]
H_POS == [sourceName |-> Some("pos"), channel |-> Some([handle |-> Some("pos")])]

I_SALT_UNKNOWN == LineItem(Some("Nosrat"), Some("9781476753836"), P1, T_SALT, None, 1, <<>>)
I_SALT_SHORT == LineItem(Some("Nosrat"), Some("9781476753836"), P1, T_SALT, Some(-3), 2, <<>>)
I_SALT_SIGNED ==
    LineItem(Some("Nosrat"), Some("9781476753836"), P1, T_SALT, Some(2), 1,
             <<[key |-> "_signed", value |-> "true"]>>)
I_RICE_ZERO == LineItem(None, None, P2, T_RICE, Some(0), 1, <<>>)
I_NO_VARIANT == [variant |-> None, quantity |-> 1, customAttributes |-> <<>>]

\* the orders the runs are built from
TwiceOrders ==
    { Order(H_WEB, <<I_SALT_UNKNOWN>>),
      Order(H_POS, <<I_SALT_SHORT>>),
      Order(H_WEB, <<I_RICE_ZERO, I_SALT_UNKNOWN>>),
      Order(H_POS, <<I_SALT_SIGNED, I_SALT_SHORT>>),
      Order(H_WEB, <<I_NO_VARIANT, I_RICE_ZERO>>),
      Order(H_POS, <<>>) }

TwiceOrderLists ==
    UNION { [1..n -> TwiceOrders] : n \in 0..MaxTwiceOrders }

\* mutant: the dict outlives the call (a module-level dict, a mutable default)
new_dict_Reused(previous) == previous

\* main_sales = {} and the like at the head of aggregate_products; previous is
\* what an earlier call left in its dict of that name
new_dict(previous) == EmptyBucket

\* the four dicts aggregate_products returns
Buckets ==
    [main |-> main_sales, backorder |-> backorder_sales,
     out_of_stock |-> oos_sales, preorder |-> preorder_sales]

TwiceIdle ==
    /\ t_orders = <<>>
    /\ t_run = 0
    /\ t_oi = 0
    /\ t_ii = 0
    /\ t_first = None
    /\ t_inputs0 = None

\* the first call, after lines 371-374
TwiceInit ==
    /\ t_orders \in TwiceOrderLists
    /\ product_details \in EnrichmentMaps
    /\ t_run = 1
    /\ t_oi = 0
    /\ t_ii = 0
    /\ t_first = None
    /\ t_inputs0 = Some([orders |-> t_orders, product_details |-> product_details])
    /\ main_sales = EmptyBucket
    /\ backorder_sales = EmptyBucket
    /\ oos_sales = EmptyBucket
    /\ preorder_sales = EmptyBucket
    /\ apc = "loop"
    /\ cur_order = None
    /\ n_orders = 0
    /\ n_items = 0
    /\ last = None
    /\ seen_pids = {}
    /\ qty_in = [p \in Products |-> 0]

\* the inner loop of the current order is exhausted
TwiceOrderDone == IF t_oi = 0 THEN TRUE ELSE t_ii = Len(t_orders[t_oi].lineItems)

\* for order in orders: the next order
TwiceNextOrder ==
    /\ apc = "loop"
    /\ TwiceOrderDone
    /\ t_oi < Len(t_orders)
    /\ t_oi' = t_oi + 1
    /\ t_ii' = 0
    /\ cur_order' = Some(t_orders[t_oi'])
    /\ n_orders' = n_orders + 1
    /\ UNCHANGED <<product_details, main_sales, backorder_sales, oos_sales, preorder_sales,
                   apc, n_items, last, seen_pids, qty_in>>
    /\ UNCHANGED <<t_orders, t_run, t_first, t_inputs0>>
    /\ UNCHANGED notTwice

\* for edge in li_edges: the next line item of the current order
TwiceLineItem ==
    /\ apc = "loop"
    /\ ~TwiceOrderDone
    /\ t_ii' = t_ii + 1
    /\ n_items' = n_items + 1
    /\ LineItemStep(t_orders[t_oi], t_orders[t_oi].lineItems[t_ii'])
    /\ UNCHANGED <<product_details, cur_order, n_orders>>
    /\ UNCHANGED <<t_orders, t_run, t_oi, t_first, t_inputs0>>
    /\ UNCHANGED notTwice

\* return main_sales, backorder_sales, oos_sales, preorder_sales
TwiceReturn ==
    /\ apc = "loop"
    /\ TwiceOrderDone
    /\ t_oi = Len(t_orders)
    /\ apc' = "done"
    /\ t_first' = IF t_run = 1 THEN Some(Buckets) ELSE t_first
    /\ UNCHANGED <<product_details, main_sales, backorder_sales, oos_sales, preorder_sales,
                   cur_order, n_orders, n_items, last, seen_pids, qty_in>>
    /\ UNCHANGED <<t_orders, t_run, t_oi, t_ii, t_inputs0>>
    /\ UNCHANGED notTwice

\* the second call with the same arguments, lines 371-374
TwiceCallAgain ==
    /\ apc = "done"
    /\ t_run = 1
    /\ t_run' = 2
    /\ main_sales' = new_dict(main_sales)
    /\ preorder_sales' = new_dict(preorder_sales)
    /\ backorder_sales' = new_dict(backorder_sales)
    /\ oos_sales' = new_dict(oos_sales)
    /\ apc' = "loop"
    /\ t_oi' = 0
    /\ t_ii' = 0
    /\ cur_order' = None
    /\ n_orders' = 0
    /\ n_items' = 0
    /\ last' = None
    /\ seen_pids' = {}
    /\ qty_in' = [p \in Products |-> 0]
    /\ UNCHANGED <<product_details, t_orders, t_first, t_inputs0>>
    /\ UNCHANGED notTwice

TwiceNext ==
    \/ TwiceNextOrder
    \/ TwiceLineItem
    \/ TwiceReturn
    \/ TwiceCallAgain

-----------------------------------------------------------------------------
(* fetch_24h_orders and fetch_unfulfilled_line_items: pagination and the   *)
(* strict post-filter                                                      *)

\* pages one fetch receives
MaxPages == 2
\* edges one fetch receives, over all pages
MaxEdges == 3

\* instants of the window bounds and of the orders' processedAt
Instants == {0, 1, 2}

\* an ISO 8601 text: whether datetime.fromisoformat accepts it, and its instant
Iso(t) == [parseable |-> TRUE, instant |-> t]
BadIso == [parseable |-> FALSE, instant |-> 0]

\* node["processedAt"]: missing, unparseable, or a timestamp
ProcessedAts == {None, Some(BadIso)} \cup {Some(Iso(t)) : t \in Instants}

\* line items of the weekly orders query: unfulfilledQuantity and product id
WeeklyLineItems ==
    { [unfulfilledQuantity |-> Some(1), product_id |-> Some(P1)],
      [unfulfilledQuantity |-> Some(0), product_id |-> Some(P1)],
      [unfulfilledQuantity |-> None,    product_id |-> Some(P2)],
      [unfulfilledQuantity |-> Some(2), product_id |-> None] }

WeeklyLineSeqs ==
    {<<>>} \cup {<<a>> : a \in WeeklyLineItems}
           \cup {<<a, b>> : a \in WeeklyLineItems, b \in WeeklyLineItems}

\* the order nodes the data source can put on a page
Nodes(which) ==
    IF which = "daily"
    THEN {[processedAt |-> p, lineItems |-> <<>>] : p \in ProcessedAts}
    ELSE {[processedAt |-> p, lineItems |-> l] : p \in ProcessedAts, l \in WeeklyLineSeqs}

\* mutant: only the lower bound is tested
daily_in_window_NoUpperBound(start, end, dt) == start <= dt

\* start_et <= dt_et <= end_et
daily_in_window(start, end, dt) == start <= dt /\ dt <= end

\* mutant: the lower bound is not tested
weekly_out_of_window_NoLowerBound(start, end, dt) == dt > end

\* processed_at < start_utc or processed_at > end_utc
weekly_out_of_window(start, end, dt) == dt < start \/ dt > end

\* what became of an edge, and the line items of an accepted order
EdgeOutcome(outcome, lineItems) == [outcome |-> outcome, lineItems |-> lineItems]

RECURSIVE weekly_rows_KeepsZero(_, _, _)
\* mutant: only a negative unfulfilled quantity is skipped
weekly_rows_KeepsZero(order_id, processed_at, lineItems) ==
    IF lineItems = <<>> THEN <<>>
    ELSE LET li   == Head(lineItems)
             uq   == IF li.unfulfilledQuantity = None THEN 0 ELSE Val(li.unfulfilledQuantity)
             rest == weekly_rows_KeepsZero(order_id, processed_at, Tail(lineItems))
         IN  IF uq < 0 THEN rest
             ELSE IF li.product_id = None THEN rest
             ELSE <<[order_id |-> order_id, processed_at_utc |-> processed_at,
                     product_id |-> Val(li.product_id), qty_unfulfilled |-> uq]>> \o rest

RECURSIVE weekly_rows(_, _, _)
\* the rows of one order node, lines 312-358
weekly_rows(order_id, processed_at, lineItems) ==
    IF lineItems = <<>> THEN <<>>
    ELSE LET li   == Head(lineItems)
             uq   == IF li.unfulfilledQuantity = None THEN 0 ELSE Val(li.unfulfilledQuantity)
             rest == weekly_rows(order_id, processed_at, Tail(lineItems))
         IN  IF uq <= 0 THEN rest
             ELSE IF li.product_id = None THEN rest
             ELSE <<[order_id |-> order_id, processed_at_utc |-> processed_at,
                     product_id |-> Val(li.product_id), qty_unfulfilled |-> uq]>> \o rest

FetchIdle ==
    /\ fetcher = "none"
    /\ f_start = 0
    /\ f_end = 0
    /\ max_orders = None
    /\ fpc = "idle"
    /\ after = None
    /\ pages = 0
    /\ edges_seen = 0
    /\ page_len = 0
    /\ page_left = 0
    /\ has_next = FALSE
    /\ last_cursor = None
    /\ records = <<>>
    /\ total_orders_seen = 0
    /\ drift = 0
    /\ last_edge = None
    /\ f_error = None

\* the state before the first request, lines 236-237 (daily) and 271-278 (weekly)
FetchInit ==
    /\ fetcher \in {"daily", "weekly"}
    /\ f_start \in Instants
    /\ f_end \in Instants
    /\ fetcher = "weekly" => f_start <= f_end
    /\ max_orders \in IF fetcher = "weekly" THEN {None, Some(2)} ELSE {None}
    /\ fpc = "request"
    /\ after = None
    /\ pages = 0
    /\ edges_seen = 0
    /\ page_len = 0
    /\ page_left = 0
    /\ has_next = FALSE
    /\ last_cursor = None
    /\ records = <<>>
    /\ total_orders_seen = 0
    /\ drift = 0
    /\ last_edge = None
    /\ f_error = None

\* mutant: the failure is caught and ends the loop like an empty answer
on_graphql_error_Break == "done"

\* where the fetcher is after client.graphql raised: nothing catches it
on_graphql_error == "raised"

\* client.graphql raises (HTTP error, GraphQL errors): the exception leaves the fetcher
FetchRaises ==
    /\ fpc = "request"
    /\ fpc' = on_graphql_error
    /\ f_error' = Some("RuntimeError")
    /\ UNCHANGED <<fetcher, f_start, f_end, max_orders, after, pages, edges_seen, page_len,
                   page_left, has_next, last_cursor, records, total_orders_seen, drift,
                   last_edge>>
    /\ UNCHANGED notFetch

\* client.graphql returns no data: "if not data: break"
FetchNoData ==
    /\ fpc = "request"
    /\ fpc' = "done"
    /\ UNCHANGED <<fetcher, f_start, f_end, max_orders, after, pages, edges_seen, page_len,
                   page_left, has_next, last_cursor, records, total_orders_seen, drift,
                   last_edge, f_error>>
    /\ UNCHANGED notFetch

\* client.graphql returns a page: edges = data["orders"]["edges"]
FetchPage ==
    /\ fpc = "request"
    /\ pages < MaxPages
    /\ \E n \in 0..(MaxEdges - edges_seen), hn \in BOOLEAN :
         /\ hn => pages + 1 < MaxPages
         /\ page_len' = n
         /\ page_left' = n
         /\ has_next' = hn
         /\ fpc' = IF fetcher = "weekly" /\ n = 0 THEN "done" ELSE "edges"
    /\ pages' = pages + 1
    /\ UNCHANGED <<fetcher, f_start, f_end, max_orders, after, edges_seen,
                   last_cursor, records, total_orders_seen, drift, last_edge, f_error>>
    /\ UNCHANGED notFetch

\* one iteration of "for edge in edges" of fetch_24h_orders, lines 253-275
FetchEdgeDaily ==
    /\ fetcher = "daily"
    /\ fpc = "edges"
    /\ page_left > 0
    /\ page_left' = page_left - 1
    /\ edges_seen' = edges_seen + 1
    /\ last_cursor' = Some(edges_seen')
    /\ \E node \in Nodes("daily") :
         IF node.processedAt = None \/ ~Val(node.processedAt).parseable
         THEN /\ last_edge' = Some(EdgeOutcome("skipped", <<>>))
              /\ UNCHANGED <<records, drift>>
         ELSE IF daily_in_window(f_start, f_end, Val(node.processedAt).instant)
         THEN /\ records' = Append(records, [id |-> edges_seen',
                                             processedAt |-> node.processedAt])
              /\ last_edge' = Some(EdgeOutcome("accepted", <<>>))
              /\ UNCHANGED drift
         ELSE /\ drift' = drift + 1
              /\ last_edge' = Some(EdgeOutcome("drift", <<>>))
              /\ UNCHANGED records
    /\ UNCHANGED <<fetcher, f_start, f_end, max_orders, fpc, after, pages, page_len,
                   has_next, total_orders_seen, f_error>>
    /\ UNCHANGED notFetch

\* one iteration of "for edge in edges" of fetch_unfulfilled_line_items, lines 296-358
FetchEdgeWeekly ==
    /\ fetcher = "weekly"
    /\ fpc = "edges"
    /\ page_left > 0
    /\ page_left' = page_left - 1
    /\ edges_seen' = edges_seen + 1
    /\ last_cursor' = Some(edges_seen')
    /\ total_orders_seen' = total_orders_seen + 1
    /\ \E node \in Nodes("weekly") :
         IF max_orders # None /\ total_orders_seen' > Val(max_orders)
         THEN /\ fpc' = "done"
              /\ last_edge' = Some(EdgeOutcome("capped", <<>>))
              /\ UNCHANGED <<records, drift>>
         ELSE IF node.processedAt = None \/ ~Val(node.processedAt).parseable
         THEN /\ fpc' = "raised"
              /\ last_edge' = Some(EdgeOutcome("raised", <<>>))
              /\ UNCHANGED <<records, drift>>
         ELSE IF weekly_out_of_window(f_start, f_end, Val(node.processedAt).instant)
         THEN /\ drift' = drift + 1
              /\ last_edge' = Some(EdgeOutcome("drift", <<>>))
              /\ UNCHANGED <<records, fpc>>
         ELSE /\ records' = records \o weekly_rows(edges_seen',
                                  Val(node.processedAt).instant, node.lineItems)
              /\ last_edge' = Some(EdgeOutcome("accepted", node.lineItems))
              /\ UNCHANGED <<drift, fpc>>
    /\ f_error' = IF fpc' = "raised" THEN Some("ValueError") ELSE f_error
    /\ UNCHANGED <<fetcher, f_start, f_end, max_orders, after, pages, page_len, has_next>>
    /\ UNCHANGED notFetch

\* the end of a page: hasNextPage and after = edges[-1]["cursor"]
FetchPageEnd ==
    /\ fpc = "edges"
    /\ page_left = 0
    /\ IF ~has_next
         THEN fpc' = "done" /\ UNCHANGED after
         ELSE IF page_len = 0
         THEN fpc' = "raised" /\ UNCHANGED after
         ELSE fpc' = "request" /\ after' = last_cursor
    /\ f_error' = IF fpc' = "raised" THEN Some("IndexError") ELSE f_error
    /\ UNCHANGED <<fetcher, f_start, f_end, max_orders, pages, edges_seen, page_len,
                   page_left, has_next, last_cursor, records, total_orders_seen, drift,
                   last_edge>>
    /\ UNCHANGED notFetch

\* main of the daily sales report goes on with the records fetch_24h_orders
\* returned: extract_product_ids, fetch_product_details, aggregate_products
DailyMainContinues ==
    /\ fetcher = "daily"
    /\ fpc = "done"
    /\ fpc' = "aggregating"
    /\ UNCHANGED <<fetcher, f_start, f_end, max_orders, after, pages, edges_seen, page_len,
                   page_left, has_next, last_cursor, records, total_orders_seen, drift,
                   last_edge, f_error>>
    /\ UNCHANGED notFetch

FetchNext ==
    \/ FetchRaises
    \/ FetchNoData
    \/ FetchPage
    \/ FetchEdgeDaily
    \/ FetchEdgeWeekly
    \/ FetchPageEnd
    \/ DailyMainContinues

-----------------------------------------------------------------------------
(* weekly_unfulfilled_line_items_report.py: product snapshots, the join    *)
(* and the risk summary                                                    *)

\* rows one fetch hands to the rest of main
MaxRows == 3

\* getattr(__main__, "SLA_THRESHOLD_DAYS", 30)
SLA_THRESHOLD_DAYS == 30

\* datetime.now(timezone.utc) of compute_product_age_summary, in seconds
NowUtc == Instant(DaysFromCivil(2026, 3, 2), 12, 0, 0)

\* ages of the fetched orders: two hours, forty days and an hour, sixty-one days
OrderAges == {2 * 3600, 40 * 86400 + 3600, 61 * 86400}

RiskProducts == {P1, P2}

\* one entry of inventoryLevels.quantities
Quantity(name, quantity) == [name |-> name, quantity |-> quantity]

\* the quantities of a product over all its variants and locations, flattened
QuantityLists ==
    { <<>>,
      <<Quantity("committed", Some(5))>>,
      <<Quantity("available", Some(4)), Quantity("committed", None),
        Quantity("committed", Some(3))>> }

CollectionLists == {<<>>, <<COOKBOOKS, PREORDER>>, <<PREORDER_SPECIALS>>}

ProductNode(id, title, totalInventory, collections, quantities) ==
    [id |-> id, title |-> title, vendor |-> "Scribner", totalInventory |-> totalInventory,
     collections |-> collections, quantities |-> quantities]

\* what the products query can answer for a product id: null or a Product node
ProductNodes(pid) ==
    IF pid = P1
    THEN {None} \cup { Some(ProductNode(pid, T_SALT, ti, c, q)) :
                         ti \in Avail, c \in CollectionLists, q \in QuantityLists }
    ELSE { None,
           Some(ProductNode(pid, T_RICE, Some(-3), <<>>,
                            <<Quantity("committed", Some(5))>>)),
           Some(ProductNode(pid, T_RICE, Some(0), <<COOKBOOKS, PREORDER>>,
                            <<Quantity("committed", Some(5))>>)) }

\* an UnfulfilledLineRow as fetch_unfulfilled_line_items builds it
UnfulfilledLineRow(order_id, processed_at, pid) ==
    [order_id |-> order_id, processed_at_utc |-> processed_at, product_id |-> pid,
     product_title |-> T_GIFT, product_vendor |-> "", qty_unfulfilled |-> 1,
     attributes |-> ""]

\* the row lists a fetch can return
RowLists ==
    UNION { { [i \in 1..n |-> UnfulfilledLineRow(i, NowUtc - f[i][2], f[i][1])] :
              f \in [1..n -> RiskProducts \X OrderAges] } : n \in 0..MaxRows }

\* product_ids of fetch_unfulfilled_line_items
product_ids_of(rs) == {rs[i].product_id : i \in 1..Len(rs)}

RECURSIVE committed_total(_)
\* the sum of the quantities named "committed"
committed_total(quantities) ==
    IF quantities = <<>> THEN 0
    ELSE LET q == Head(quantities)
         IN  ( IF q.name = "committed"
               THEN (IF q.quantity = None THEN 0 ELSE Val(q.quantity))
               ELSE 0 ) + committed_total(Tail(quantities))

\* any("Preorder" in (c or "") for c in collections)
is_preorder_weekly(collections) ==
    \E i \in 1..Len(collections) : Contains(collections[i], PREORDER)

IsNonEmptyTitle(c) == c # <<>>

\* the ProductSnapshot of one node
ProductSnapshot(node) ==
    LET collections == SelectSeq(node.collections, IsNonEmptyTitle)
    IN  [product_id |-> node.id,
         title |-> node.title,
         vendor |-> node.vendor,
         total_inventory |-> node.totalInventory,
         collections |-> collections,
         committed |-> committed_total(node.quantities),
         is_preorder |-> is_preorder_weekly(collections)]

\* build_product_snapshots with an empty cache
build_product_snapshots(product_ids, nodes) ==
    [pid \in {q \in product_ids : nodes[q] # None} |-> ProductSnapshot(Val(nodes[pid]))]

\* mutant: an inventory of zero counts as backordered
derive_attributes_for_line_ZeroIsBackorder(product) ==
    IF product.is_preorder THEN ""
    ELSE IF product.total_inventory = None THEN ""
    ELSE IF Val(product.total_inventory) <= 0 THEN "backorder"
    ELSE "pending_fulfillment"

derive_attributes_for_line(product) ==
    IF product.is_preorder THEN ""
    ELSE IF product.total_inventory = None THEN ""
    ELSE IF Val(product.total_inventory) < 0 THEN "backorder"
    ELSE "pending_fulfillment"

\* mutant: committed is not examined
is_risk_product_IgnoreCommitted(product) ==
    IF product.is_preorder THEN FALSE
    ELSE IF product.total_inventory = None THEN FALSE
    ELSE Val(product.total_inventory) <= 0

is_risk_product(product) ==
    IF product.is_preorder THEN FALSE
    ELSE IF product.total_inventory = None THEN FALSE
    ELSE IF product.committed <= 0 THEN FALSE
    ELSE Val(product.total_inventory) <= 0

RECURSIVE attach_attributes_and_vendor(_, _)
attach_attributes_and_vendor(rs, products) ==
    IF rs = <<>> THEN <<>>
    ELSE LET r    == Head(rs)
             rest == attach_attributes_and_vendor(Tail(rs), products)
         IN  IF r.product_id \notin DOMAIN products THEN rest
             ELSE LET p == products[r.product_id]
                  IN  IF p.is_preorder THEN rest
                      ELSE <<[r EXCEPT
                                !.product_title = IF p.title # <<>> THEN p.title ELSE @,
                                !.product_vendor = IF p.vendor # "" THEN p.vendor ELSE @,
                                !.attributes = derive_attributes_for_line(p)]>> \o rest

RECURSIVE by_pid_keys(_, _)
\* the keys of by_pid in insertion order
by_pid_keys(rs, seen) ==
    IF rs = <<>> THEN <<>>
    ELSE IF Head(rs).product_id \in seen THEN by_pid_keys(Tail(rs), seen)
    ELSE <<Head(rs).product_id>> \o by_pid_keys(Tail(rs), seen \cup {Head(rs).product_id})

\* the processed instants of by_pid[pid]
plist_instants(rs, pid) ==
    {rs[i].processed_at_utc : i \in {j \in 1..Len(rs) : rs[j].product_id = pid}}

Min(S) == CHOOSE x \in S : \A y \in S : x <= y
Max(S) == CHOOSE x \in S : \A y \in S : y <= x

\* mutant: the thresholds are compared strictly
age_bucket_of_Strict(age_days) ==
    IF age_days < 7 THEN "0-7"
    ELSE IF age_days < 14 THEN "8-14"
    ELSE IF age_days < 30 THEN "15-30"
    ELSE IF age_days < 60 THEN "31-60"
    ELSE "60+"

age_bucket_of(age_days) ==
    IF age_days <= 7 THEN "0-7"
    ELSE IF age_days <= 14 THEN "8-14"
    ELSE IF age_days <= 30 THEN "15-30"
    ELSE IF age_days <= 60 THEN "31-60"
    ELSE "60+"

\* the heatmap cell, named by its colour
heatmap_of(age_days) ==
    IF age_days <= 7 THEN "green"
    ELSE IF age_days <= 14 THEN "yellow"
    ELSE IF age_days <= 30 THEN "orange"
    ELSE "red"

\* mutant: the age is counted from the latest order
summary_row_AgeFromLatest(pid, p, rs) ==
    LET earliest == Min(plist_instants(rs, pid))
        latest   == Max(plist_instants(rs, pid))
        age_days == (NowUtc - latest) \div 86400
    IN  [product_id |-> pid,
         title |-> p.title,
         vendor |-> p.vendor,
         collections |-> p.collections,
         total_inventory |-> p.total_inventory,
         committed |-> p.committed,
         earliest_order_utc |-> earliest,
         latest_order_utc |-> latest,
         age_days |-> age_days,
         age_bucket |-> age_bucket_of(age_days),
         heatmap |-> heatmap_of(age_days),
         sla_breach |-> IF age_days >= SLA_THRESHOLD_DAYS THEN "YES" ELSE ""]

\* the summary row of one risk product
summary_row(pid, p, rs) ==
    LET earliest == Min(plist_instants(rs, pid))
        latest   == Max(plist_instants(rs, pid))
        age_days == (NowUtc - earliest) \div 86400
    IN  [product_id |-> pid,
         title |-> p.title,
         vendor |-> p.vendor,
         collections |-> p.collections,
         total_inventory |-> p.total_inventory,
         committed |-> p.committed,
         earliest_order_utc |-> earliest,
         latest_order_utc |-> latest,
         age_days |-> age_days,
         age_bucket |-> age_bucket_of(age_days),
         heatmap |-> heatmap_of(age_days),
         sla_breach |-> IF age_days >= SLA_THRESHOLD_DAYS THEN "YES" ELSE ""]

RECURSIVE summaries_of(_, _, _)
\* the loop over by_pid.items()
summaries_of(keys, rs, products) ==
    IF keys = <<>> THEN <<>>
    ELSE LET pid  == Head(keys)
             rest == summaries_of(Tail(keys), rs, products)
         IN  IF pid \notin DOMAIN products THEN rest
             ELSE IF ~is_risk_product(products[pid]) THEN rest
             ELSE <<summary_row(pid, products[pid], rs)>> \o rest

RECURSIVE insert_by_age(_, _)
\* x goes after every row that is at least as old
insert_by_age(x, sorted) ==
    IF sorted = <<>> THEN <<x>>
    ELSE IF Head(sorted).age_days >= x.age_days
         THEN <<Head(sorted)>> \o insert_by_age(x, Tail(sorted))
         ELSE <<x>> \o sorted

\* mutant: the summaries are returned in the order of by_pid
sort_by_age_reverse_NotSorted(summaries) == summaries

RECURSIVE sort_by_age_reverse(_)
\* summaries.sort(key=age_days, reverse=True), a stable sort
sort_by_age_reverse(summaries) ==
    IF summaries = <<>> THEN <<>>
    ELSE insert_by_age(summaries[Len(summaries)],
                       sort_by_age_reverse(SubSeq(summaries, 1, Len(summaries) - 1)))

compute_product_age_summary(rs, products) ==
    sort_by_age_reverse(summaries_of(by_pid_keys(rs, {}), rs, products))

RiskIdle ==
    /\ rpc = "idle"
    /\ fetched_rows = <<>>
    /\ rows = <<>>
    /\ product_nodes = <<>>
    /\ product_cache = <<>>
    /\ summary_rows = <<>>

\* main after fetch_unfulfilled_line_items returned
RiskInit ==
    /\ rpc = "fetched"
    /\ fetched_rows \in RowLists
    /\ rows = fetched_rows
    /\ product_nodes \in {f \in [RiskProducts -> UNION {ProductNodes(q) : q \in RiskProducts}] :
                              \A q \in RiskProducts : f[q] \in ProductNodes(q)}
    /\ product_cache = <<>>
    /\ summary_rows = <<>>

\* "if not rows: return"
RiskNoRows ==
    /\ rpc = "fetched"
    /\ rows = <<>>
    /\ rpc' = "done"
    /\ UNCHANGED <<fetched_rows, rows, product_nodes, product_cache, summary_rows>>
    /\ UNCHANGED notRisk

\* step 2 of main
RiskBuildSnapshots ==
    /\ rpc = "fetched"
    /\ rows # <<>>
    /\ product_cache' = build_product_snapshots(product_ids_of(rows), product_nodes)
    /\ rpc' = "snapshots"
    /\ UNCHANGED <<fetched_rows, rows, product_nodes, summary_rows>>
    /\ UNCHANGED notRisk

\* step 3 of main
RiskAttach ==
    /\ rpc = "snapshots"
    /\ rows' = attach_attributes_and_vendor(rows, product_cache)
    /\ rpc' = "attached"
    /\ UNCHANGED <<fetched_rows, product_nodes, product_cache, summary_rows>>
    /\ UNCHANGED notRisk

\* step 4 of main
RiskSummary ==
    /\ rpc = "attached"
    /\ summary_rows' = compute_product_age_summary(rows, product_cache)
    /\ rpc' = "done"
    /\ UNCHANGED <<fetched_rows, rows, product_nodes, product_cache>>
    /\ UNCHANGED notRisk

RiskNext ==
    \/ RiskNoRows
    \/ RiskBuildSnapshots
    \/ RiskAttach
    \/ RiskSummary

\* rows of one fetch in the runs that sample the order ages closely
MaxAgeRows == 2

\* order ages around every threshold of the age buckets, in seconds
AgeSamples ==
    { 0, 86399,
      7 * 86400 + 86399, 8 * 86400,
      14 * 86400 + 86399, 15 * 86400,
      30 * 86400 + 86399, 31 * 86400,
      40 * 86400 + 3600,
      60 * 86400 + 86399, 61 * 86400 }

\* row lists of one product with closely sampled ages
AgeRowLists ==
    UNION { { [i \in 1..n |-> UnfulfilledLineRow(i, NowUtc - f[i], P1)] :
              f \in [1..n -> AgeSamples] } : n \in 0..MaxAgeRows }

\* main after a fetch that found only rows of P1, a product that is at risk
AgeInit ==
    /\ rpc = "fetched"
    /\ fetched_rows \in AgeRowLists
    /\ rows = fetched_rows
    /\ product_nodes \in
         { [q \in RiskProducts |->
              IF q = P1
              THEN Some(ProductNode(P1, T_SALT, ti, <<>>, <<Quantity("committed", Some(5))>>))
              ELSE None] : ti \in {Some(-3), Some(0)} }
    /\ product_cache = <<>>
    /\ summary_rows = <<>>

-----------------------------------------------------------------------------
(* daily_sales_report.py: fetch_product_details as main calls it           *)

\* the product ids extract_product_ids can hand over, in sorted() order
EnrichOrder == <<P1, P2, P3>>

\* the product of a PRODUCT_DETAILS_QUERY answer
DetailProduct(title, totalInventory, collections, quantities, amount) ==
    [title |-> title, vendor |-> "Scribner", totalInventory |-> totalInventory,
     collections |-> collections, quantities |-> quantities, amount |-> amount]

DetailProducts ==
    { DetailProduct(T_SALT, Some(2), <<>>, <<Quantity("incoming", Some(4))>>, Some("35.00")),
      DetailProduct(T_RICE, Some(-3), <<COOKBOOKS, PREORDER>>,
                    <<Quantity("available", Some(1)), Quantity("incoming", None),
                      Quantity("incoming", Some(2))>>, None),
      DetailProduct(<<>>, None, <<COOKBOOKS>>, <<>>, Some("12.50")) }

\* what ShopifyClient.graphql does with one request: it raises (non-JSON body,
\* status other than 200, "errors" in the body) or returns data["data"]
GraphqlAnswers ==
    { [raised |-> TRUE, product |-> None], [raised |-> FALSE, product |-> None] }
    \cup { [raised |-> FALSE, product |-> Some(x)] : x \in DetailProducts }

RECURSIVE incoming_total(_)
\* the sum of the quantities named "incoming"
incoming_total(quantities) ==
    IF quantities = <<>> THEN 0
    ELSE LET q == Head(quantities)
         IN  ( IF q.name = "incoming"
               THEN (IF q.quantity = None THEN 0 ELSE Val(q.quantity))
               ELSE 0 ) + incoming_total(Tail(quantities))

\* details[pid] of fetch_product_details, lines 350-363
product_detail(product) ==
    [title |-> product.title,
     vendor |-> product.vendor,
     available |-> product.totalInventory,
     collections |-> product.collections,
     incoming |-> incoming_total(product.quantities),
     price |-> product.amount]

IsEnrichId(pid) == pid \in e_ids

EnrichIdle ==
    /\ epc = "idle"
    /\ e_ids = {}
    /\ e_pending = <<>>
    /\ e_details = None
    /\ e_answers = None

\* the entry of fetch_product_details: details = {} and the loop over sorted(product_ids)
EnrichInit ==
    /\ epc = "enrich"
    /\ e_ids \in SUBSET {EnrichOrder[i] : i \in 1..Len(EnrichOrder)}
    /\ e_pending = SelectSeq(EnrichOrder, IsEnrichId)
    /\ e_details = [p \in Products |-> None]
    /\ e_answers = [p \in Products |-> None]

\* one iteration of "for pid in sorted(product_ids)"
EnrichRequest ==
    /\ epc = "enrich"
    /\ e_pending # <<>>
    /\ \E answer \in GraphqlAnswers :
         LET pid == Head(e_pending) IN
         /\ e_answers' = [e_answers EXCEPT ![pid] = Some(answer)]
         /\ IF answer.raised
            THEN /\ epc' = "raised"
                 /\ UNCHANGED <<e_pending, e_details>>
            ELSE /\ epc' = epc
                 /\ e_pending' = Tail(e_pending)
                 /\ e_details' = IF answer.product = None THEN e_details
                                ELSE [e_details EXCEPT
                                        ![pid] = Some(product_detail(Val(answer.product)))]
    /\ UNCHANGED e_ids
    /\ UNCHANGED notEnrich

\* "return details"
EnrichReturn ==
    /\ epc = "enrich"
    /\ e_pending = <<>>
    /\ epc' = "returned"
    /\ UNCHANGED <<e_ids, e_pending, e_details, e_answers>>
    /\ UNCHANGED notEnrich

\* main goes on to aggregate_products(orders, product_details)
EnrichAggregate ==
    /\ epc = "returned"
    /\ epc' = "aggregated"
    /\ UNCHANGED <<e_ids, e_pending, e_details, e_answers>>
    /\ UNCHANGED notEnrich

EnrichNext ==
    \/ EnrichRequest
    \/ EnrichReturn
    \/ EnrichAggregate

-----------------------------------------------------------------------------
(* The daily sales entry points up to the call of the order fetcher        *)

\* first day of the modelled range of "today": 2024-12-01, in a year without
\* calendar data; the range runs through 2025 and 2026 into 2027
CalendarOrigin == DaysFromCivil(2024, 12, 1)
\* number of days after CalendarOrigin that "today" ranges over
CalendarSpan == 800
\* explicit dates are drawn from today - ArgSpread .. today + ArgSpread
ArgSpread == 2

Days == CalendarOrigin .. (CalendarOrigin + CalendarSpan)

\* mutant: the window opens at the start of the calendar day
start_instant_Midnight(d) == Instant(d, 0, 0, 0)

\* start_et = datetime(start_date.year, start_date.month, start_date.day, 10, 0, 0)
start_instant(d) == Instant(d, 10, 0, 0)

\* mutant: the window closes at the end of the calendar day
end_instant_Midnight(d) == Instant(d, 23, 59, 59)

\* end_et = datetime(end_date.year, end_date.month, end_date.day, 9, 59, 59)
end_instant(d) == Instant(d, 9, 59, 59)

CalIdle ==
    /\ entry = "none"
    /\ today = 0
    /\ arg_start = None
    /\ arg_end = None
    /\ pc = "idle"
    /\ is_open = None
    /\ window = None
    /\ start_date = None
    /\ end_date = None
    /\ start_et = None
    /\ end_et = None

CalInit ==
    /\ entry \in {"cli", "worker"}
    /\ today \in Days
    /\ arg_start \in {None} \cup {Some(d) : d \in (today - ArgSpread) .. (today + ArgSpread)}
    /\ arg_end \in {None} \cup {Some(d) : d \in (today - ArgSpread) .. (today + ArgSpread)}
    /\ pc = "start"
    /\ is_open = None
    /\ window = None
    /\ start_date = None
    /\ end_date = None
    /\ start_et = None
    /\ end_et = None

\* main(), lines 612-626: an explicit date range is given
MainOverride ==
    /\ entry = "cli"
    /\ pc = "start"
    /\ arg_start # None \/ arg_end # None
    /\ window' = IF arg_start = None THEN Some(get_reporting_window(today)) ELSE window
    /\ start_date' = IF arg_start = None THEN Some(Val(window').start) ELSE arg_start
    /\ end_date' = IF arg_end = None THEN Some(today) ELSE arg_end
    /\ IF Val(end_date') < Val(start_date')
         THEN /\ pc' = "error"
              /\ UNCHANGED <<start_et, end_et>>
         ELSE /\ start_et' = Some(start_instant(Val(start_date')))
              /\ end_et' = Some(end_instant(Val(end_date')))
              /\ pc' = "fetch"
    /\ UNCHANGED <<entry, today, arg_start, arg_end, is_open>>
    /\ UNCHANGED notCal

\* main(), lines 627-637: the calendar-driven path
MainCalendar ==
    /\ entry = "cli"
    /\ pc = "start"
    /\ arg_start = None /\ arg_end = None
    /\ is_open' = Some(is_business_day(today))
    /\ IF ~Val(is_open')
         THEN /\ pc' = "skipped"
              /\ UNCHANGED <<window, start_date, end_date, start_et, end_et>>
         ELSE /\ window' = Some(get_reporting_window(today))
              /\ start_date' = Some(Val(window').start)
              /\ end_date' = Some(today)
              /\ start_et' = Some(start_instant(Val(start_date')))
              /\ end_et' = Some(end_instant(Val(end_date')))
              /\ pc' = "fetch"
    /\ UNCHANGED <<entry, today, arg_start, arg_end>>
    /\ UNCHANGED notCal

\* execute_daily_sales(), lines 52-54 and 68-76: both dates are given
WorkerOverride ==
    /\ entry = "worker"
    /\ pc = "start"
    /\ arg_start # None /\ arg_end # None
    /\ start_date' = arg_start
    /\ end_date' = arg_end
    /\ start_et' = Some(start_instant(Val(start_date')))
    /\ end_et' = Some(end_instant(Val(end_date')))
    /\ pc' = "fetch"
    /\ UNCHANGED <<entry, today, arg_start, arg_end, is_open, window>>
    /\ UNCHANGED notCal

\* execute_daily_sales(), lines 55-76: the calendar-driven path
WorkerCalendar ==
    /\ entry = "worker"
    /\ pc = "start"
    /\ ~(arg_start # None /\ arg_end # None)
    /\ is_open' = Some(is_business_day(today))
    /\ IF ~Val(is_open')
         THEN /\ pc' = "skipped"
              /\ UNCHANGED <<window, start_date, end_date, start_et, end_et>>
         ELSE /\ window' = Some(get_reporting_window(today))
              /\ start_date' = Some(Val(window').start)
              /\ end_date' = Some(today)
              /\ start_et' = Some(start_instant(Val(start_date')))
              /\ end_et' = Some(end_instant(Val(end_date')))
              /\ pc' = "fetch"
    /\ UNCHANGED <<entry, today, arg_start, arg_end>>
    /\ UNCHANGED notCal

CalNext ==
    \/ MainOverride
    \/ MainCalendar
    \/ WorkerOverride
    \/ WorkerCalendar

-----------------------------------------------------------------------------
(* The calendar-driven report attempted on every consecutive day: each     *)
(* attempt is a fresh run of main() or execute_daily_sales() without       *)
(* explicit dates, on the day after the previous attempt.                  *)

SeriesIdle == prev_end_et = None

\* the first attempt, on any day of the modelled range
SeriesInit ==
    /\ entry \in {"cli", "worker"}
    /\ today \in Days
    /\ arg_start = None
    /\ arg_end = None
    /\ pc = "start"
    /\ is_open = None
    /\ window = None
    /\ start_date = None
    /\ end_date = None
    /\ start_et = None
    /\ end_et = None
    /\ prev_end_et = None

\* the attempt of the next day: today_et = datetime.now(tz_et) one day later,
\* with fresh locals; the run that just ended is remembered if it executed
NextDay ==
    /\ pc \in {"fetch", "skipped"}
    /\ today < CalendarOrigin + CalendarSpan
    /\ prev_end_et' = IF pc = "fetch" THEN end_et ELSE prev_end_et
    /\ today' = today + 1
    /\ entry' \in {"cli", "worker"}
    /\ pc' = "start"
    /\ is_open' = None
    /\ window' = None
    /\ start_date' = None
    /\ end_date' = None
    /\ start_et' = None
    /\ end_et' = None
    /\ UNCHANGED <<arg_start, arg_end>>
    /\ UNCHANGED notSeries

SeriesNext ==
    \/ MainCalendar
    \/ WorkerCalendar
    \/ NextDay

-----------------------------------------------------------------------------
(* services/report_job_worker.py: the worker loop and the life of a job    *)

\* jobs the queue holds when the worker starts
MaxJobs == 2

Jobs == 1..MaxJobs

\* report ids of queued jobs: one with an executor, one without
ReportIds == {"daily_sales", "weekly_maintenance"}

\* the keys of REPORT_EXECUTORS
REPORT_EXECUTORS == {"daily_sales"}

\* what execute_daily_sales does: it returns the skip notice or the result of
\* run_daily_sales_report, or it raises
ExecutorOutcomes ==
    { [raised |-> FALSE, result |-> Some("skipped")],
      [raised |-> FALSE, result |-> None],
      [raised |-> TRUE, result |-> None] }

\* a row of reports.report_jobs as the worker finds it
QueuedRow ==
    [status |-> "queued", started_at |-> FALSE, completed_at |-> FALSE,
     result |-> None, error |-> None]

\* update_job(job_id, status=..., result=..., error=...): the payload applied
\* to the row
update_job(row, status, result, error) ==
    [row EXCEPT !.status = status,
                !.started_at = IF status = "running" THEN TRUE ELSE @,
                !.completed_at = IF status \in {"success", "failed", "cancelled"}
                                 THEN TRUE ELSE @,
                !.result = IF result # None THEN result ELSE @,
                !.error = IF error # None THEN error ELSE @]

\* mutant: the handler marks the job as done
status_on_exception_Success == "success"

\* the status the except branch of process_job writes
status_on_exception == "failed"

JobsIdle ==
    /\ wpc = "idle"
    /\ j_report = <<>>
    /\ j_unclaimed = {}
    /\ j_row = <<>>
    /\ cur_job = None
    /\ w_result = None
    /\ w_error = None
    /\ j_exec = <<>>
    /\ j_writes = <<>>
    /\ j_write_failed = <<>>
    /\ j_end = <<>>

\* worker_loop starts on a queue of jobs
JobsInit ==
    /\ wpc = "claim"
    /\ j_report \in [Jobs -> ReportIds]
    /\ j_unclaimed = Jobs
    /\ j_row = [j \in Jobs |-> QueuedRow]
    /\ cur_job = None
    /\ w_result = None
    /\ w_error = None
    /\ j_exec = [j \in Jobs |-> "none"]
    /\ j_writes = [j \in Jobs |-> <<>>]
    /\ j_write_failed = [j \in Jobs |-> FALSE]
    /\ j_end = [j \in Jobs |-> "none"]

\* claim_next_job() returns a job: process_job(job) is entered
ClaimJob ==
    /\ wpc = "claim"
    /\ \E j \in j_unclaimed :
         /\ j_unclaimed' = j_unclaimed \ {j}
         /\ cur_job' = Some(j)
    /\ w_result' = None
    /\ w_error' = None
    /\ wpc' = "start"
    /\ UNCHANGED <<j_report, j_row, j_exec, j_writes, j_write_failed, j_end>>
    /\ UNCHANGED notJobs

\* claim_next_job() returns None: await asyncio.sleep(POLL_INTERVAL_SECONDS)
ClaimNothing ==
    /\ wpc = "claim"
    /\ j_unclaimed = {}
    /\ wpc' = "sleep"
    /\ UNCHANGED <<j_report, j_unclaimed, j_row, cur_job, w_result, w_error,
                   j_exec, j_writes, j_write_failed, j_end>>
    /\ UNCHANGED notJobs

\* claim_next_job() raises: the except branch of worker_loop sleeps
ClaimRaises ==
    /\ wpc = "claim"
    /\ j_unclaimed # {}
    /\ wpc' = "sleep"
    /\ UNCHANGED <<j_report, j_unclaimed, j_row, cur_job, w_result, w_error,
                   j_exec, j_writes, j_write_failed, j_end>>
    /\ UNCHANGED notJobs

\* the sleep is over: the next iteration of "while True"
Wake ==
    /\ wpc = "sleep"
    /\ wpc' = "claim"
    /\ UNCHANGED <<j_report, j_unclaimed, j_row, cur_job, w_result, w_error,
                   j_exec, j_writes, j_write_failed, j_end>>
    /\ UNCHANGED notJobs

\* update_job(job_id, status="running"): the write reaches the table, or raises
WriteRunning ==
    /\ wpc = "start"
    /\ LET j == Val(cur_job) IN
       \E ok \in BOOLEAN :
         IF ok
         THEN /\ j_row' = [j_row EXCEPT ![j] = update_job(@, "running", None, None)]
              /\ j_writes' = [j_writes EXCEPT ![j] = Append(@, "running")]
              /\ wpc' = "lookup"
              /\ UNCHANGED <<w_error, j_write_failed>>
         ELSE /\ j_write_failed' = [j_write_failed EXCEPT ![j] = TRUE]
              /\ w_error' = Some("update failed")
              /\ wpc' = "except"
              /\ UNCHANGED <<j_row, j_writes>>
    /\ UNCHANGED <<j_report, j_unclaimed, cur_job, w_result, j_exec, j_end>>
    /\ UNCHANGED notJobs

\* executor = REPORT_EXECUTORS.get(report_id); if not executor: raise ValueError
LookupExecutor ==
    /\ wpc = "lookup"
    /\ IF j_report[Val(cur_job)] \in REPORT_EXECUTORS
         THEN wpc' = "execute" /\ UNCHANGED w_error
         ELSE wpc' = "except" /\ w_error' = Some("No executor registered")
    /\ UNCHANGED <<j_report, j_unclaimed, j_row, cur_job, w_result,
                   j_exec, j_writes, j_write_failed, j_end>>
    /\ UNCHANGED notJobs

\* result = executor(parameters)
RunExecutor ==
    /\ wpc = "execute"
    /\ \E out \in ExecutorOutcomes :
         IF out.raised
         THEN /\ j_exec' = [j_exec EXCEPT ![Val(cur_job)] = "raised"]
              /\ w_error' = Some("executor error")
              /\ wpc' = "except"
              /\ UNCHANGED w_result
         ELSE /\ j_exec' = [j_exec EXCEPT ![Val(cur_job)] = "returned"]
              /\ w_result' = out.result
              /\ wpc' = "write_success"
              /\ UNCHANGED w_error
    /\ UNCHANGED <<j_report, j_unclaimed, j_row, cur_job, j_writes, j_write_failed, j_end>>
    /\ UNCHANGED notJobs

\* update_job(job_id, status="success", result=result); process_job returns
\* and worker_loop calls claim_next_job again
WriteSuccess ==
    /\ wpc = "write_success"
    /\ LET j == Val(cur_job) IN
       \E ok \in BOOLEAN :
         IF ok
         THEN /\ j_row' = [j_row EXCEPT ![j] = update_job(@, "success", w_result, None)]
              /\ j_writes' = [j_writes EXCEPT ![j] = Append(@, "success")]
              /\ j_end' = [j_end EXCEPT ![j] = "returned"]
              /\ cur_job' = None
              /\ wpc' = "claim"
              /\ UNCHANGED <<w_error, j_write_failed>>
         ELSE /\ j_write_failed' = [j_write_failed EXCEPT ![j] = TRUE]
              /\ w_error' = Some("update failed")
              /\ wpc' = "except"
              /\ UNCHANGED <<j_row, j_writes, j_end, cur_job>>
    /\ UNCHANGED <<j_report, j_unclaimed, w_result, j_exec>>
    /\ UNCHANGED notJobs

\* except Exception as e: update_job(job_id, status="failed", error=str(e));
\* if this write raises, the exception leaves process_job and the except
\* branch of worker_loop sleeps
WriteFailed ==
    /\ wpc = "except"
    /\ LET j == Val(cur_job) IN
       \E ok \in BOOLEAN :
         IF ok
         THEN /\ j_row' = [j_row EXCEPT
                             ![j] = update_job(@, status_on_exception, None, w_error)]
              /\ j_writes' = [j_writes EXCEPT ![j] = Append(@, status_on_exception)]
              /\ j_end' = [j_end EXCEPT ![j] = "returned"]
              /\ wpc' = "claim"
              /\ UNCHANGED j_write_failed
         ELSE /\ j_write_failed' = [j_write_failed EXCEPT ![j] = TRUE]
              /\ j_end' = [j_end EXCEPT ![j] = "raised"]
              /\ wpc' = "sleep"
              /\ UNCHANGED <<j_row, j_writes>>
    /\ cur_job' = None
    /\ UNCHANGED <<j_report, j_unclaimed, w_result, w_error, j_exec>>
    /\ UNCHANGED notJobs

JobsNext ==
    \/ ClaimJob
    \/ ClaimNothing
    \/ ClaimRaises
    \/ Wake
    \/ WriteRunning
    \/ LookupExecutor
    \/ RunExecutor
    \/ WriteSuccess
    \/ WriteFailed

-----------------------------------------------------------------------------
(* scripts/lop_unfulfilled_report.py: the post-filter of                   *)
(* fetch_orders_since_lop                                                  *)

\* orders one fetch loop collected
MaxLopOrders == 3

\* the orders the search 'created_at:>=<day of the LOP order>' can answer:
\* created before, at and after the LOP order's instant, or without a usable
\* createdAt
LopOrderLists ==
    UNION { { [i \in 1..n |-> [id |-> i, createdAt |-> f[i]]] :
              f \in [1..n -> ProcessedAts] } : n \in 0..MaxLopOrders }

LopIdle ==
    /\ lpc = "idle"
    /\ lop_dt = 0
    /\ collected = <<>>
    /\ l_index = 0
    /\ strict_collected = <<>>

\* the fetch loop is over: strict_collected = []
LopInit ==
    /\ lpc = "filter"
    /\ lop_dt \in Instants
    /\ collected \in LopOrderLists
    /\ l_index = 0
    /\ strict_collected = <<>>

\* one iteration of "for o in collected", lines 380-386
LopFilterOrder ==
    /\ lpc = "filter"
    /\ l_index < Len(collected)
    /\ l_index' = l_index + 1
    /\ LET o == collected[l_index'] IN
       IF o.createdAt = None
       THEN UNCHANGED <<lpc, strict_collected>>
       ELSE IF ~Val(o.createdAt).parseable
       THEN lpc' = "raised" /\ UNCHANGED strict_collected
       ELSE IF Val(o.createdAt).instant > lop_dt
       THEN strict_collected' = Append(strict_collected, o) /\ UNCHANGED lpc
       ELSE UNCHANGED <<lpc, strict_collected>>
    /\ UNCHANGED <<lop_dt, collected>>
    /\ UNCHANGED notLop

\* return strict_collected
LopReturn ==
    /\ lpc = "filter"
    /\ l_index = Len(collected)
    /\ lpc' = "done"
    /\ UNCHANGED <<lop_dt, collected, l_index, strict_collected>>
    /\ UNCHANGED notLop

LopNext ==
    \/ LopFilterOrder
    \/ LopReturn

\* a run of a daily sales entry point up to the fetcher
InitCal == CalInit /\ AggIdle /\ FetchIdle /\ RiskIdle /\ EnrichIdle /\ TwiceIdle /\ SeriesIdle /\ JobsIdle /\ LopIdle

SpecCal == InitCal /\ [][CalNext]_vars

\* a run of aggregate_products
InitAgg == AggInit /\ CalIdle /\ FetchIdle /\ RiskIdle /\ EnrichIdle /\ TwiceIdle /\ SeriesIdle /\ JobsIdle /\ LopIdle

SpecAgg == InitAgg /\ [][AggNext]_vars

\* a run of an order fetcher
InitFetch == FetchInit /\ CalIdle /\ AggIdle /\ RiskIdle /\ EnrichIdle /\ TwiceIdle /\ SeriesIdle /\ JobsIdle /\ LopIdle

SpecFetch == InitFetch /\ [][FetchNext]_vars

\* a run of the weekly report after its fetch
InitRisk == RiskInit /\ CalIdle /\ AggIdle /\ FetchIdle /\ EnrichIdle /\ TwiceIdle /\ SeriesIdle /\ JobsIdle /\ LopIdle

SpecRisk == InitRisk /\ [][RiskNext]_vars

\* the same run on rows whose ages lie around the bucket thresholds
InitAge == AgeInit /\ CalIdle /\ AggIdle /\ FetchIdle /\ EnrichIdle /\ TwiceIdle /\ SeriesIdle /\ JobsIdle /\ LopIdle

SpecAge == InitAge /\ [][RiskNext]_vars

\* a run of fetch_product_details inside main
InitEnrich == EnrichInit /\ CalIdle /\ AggIdle /\ FetchIdle /\ RiskIdle /\ TwiceIdle /\ SeriesIdle /\ JobsIdle /\ LopIdle

SpecEnrich == InitEnrich /\ [][EnrichNext]_vars

\* two calls of aggregate_products on the same arguments
InitTwice == TwiceInit /\ CalIdle /\ FetchIdle /\ RiskIdle /\ EnrichIdle /\ SeriesIdle /\ JobsIdle /\ LopIdle

SpecTwice == InitTwice /\ [][TwiceNext]_vars

\* the calendar-driven report attempted day after day
InitSeries == SeriesInit /\ AggIdle /\ FetchIdle /\ RiskIdle /\ EnrichIdle /\ TwiceIdle /\ JobsIdle /\ LopIdle

SpecSeries == InitSeries /\ [][SeriesNext]_vars

\* the job worker on a queue of jobs
InitJobs == JobsInit /\ CalIdle /\ AggIdle /\ FetchIdle /\ RiskIdle /\ EnrichIdle /\ TwiceIdle /\ SeriesIdle /\ LopIdle

SpecJobs == InitJobs /\ [][JobsNext]_vars

\* the post-filter of fetch_orders_since_lop
InitLop == LopInit /\ CalIdle /\ AggIdle /\ FetchIdle /\ RiskIdle /\ EnrichIdle /\ TwiceIdle /\ SeriesIdle /\ JobsIdle

SpecLop == InitLop /\ [][LopNext]_vars

\* the run took the calendar-driven path and reached the fetcher
CalendarPath ==
    /\ pc = "fetch"
    /\ IF entry = "cli" THEN arg_start = None /\ arg_end = None
                          ELSE arg_start = None \/ arg_end = None

-----------------------------------------------------------------------------
(* Calendar and window claims, checked under SpecCal                       *)

\* C3: the start date returned by get_reporting_window(today) is an open
\* business day strictly before today, not after the end date, and every day
\* strictly between it and today is closed.
C3_StartIsLastOpenDay ==
    window # None =>
        LET w == Val(window) IN
        /\ is_business_day(w.start)
        /\ w.start < today
        /\ w.start <= w.end
        /\ \A d \in (w.start + 1) .. (today - 1) : ~is_business_day(d)

\* C3 witness: a window that spans two closed days before today
C3_Witness ==
    /\ window # None
    /\ Val(window).start + 2 = Val(window).end
    /\ ~is_business_day(today - 1)
    /\ ~is_business_day(today - 2)

\* C4: the end date returned by get_reporting_window(today) is today minus
\* one calendar day, whether or not that day is open.
C4_EndIsYesterday ==
    window # None => Val(window).end = today - 1

\* C4 witness: a window was computed on a day whose yesterday was closed
C4_Witness ==
    /\ window # None
    /\ Val(window).end = today - 1
    /\ ~is_business_day(today - 1)

\* C5 as claimed: on the calendar-driven path the fetcher's window starts at
\* 10:00:00 on the reporting window's start date and ends at 09:59:59 dated on
\* the reporting window's end date (the day before today).
C5_EndsOnWindowEndDate ==
    CalendarPath =>
        /\ start_et = Some(Instant(Val(window).start, 10, 0, 0))
        /\ end_et = Some(Instant(Val(window).end, 9, 59, 59))

\* C5 amended: on the calendar-driven path the fetcher's window starts at
\* 10:00:00 on the reporting window's start date and ends at 09:59:59 on today,
\* the day after the reporting window's end date.
C5_EndsOnToday ==
    CalendarPath =>
        /\ start_et = Some(Instant(Val(window).start, 10, 0, 0))
        /\ end_et = Some(Instant(today, 9, 59, 59))
        /\ end_et = Some(Instant(Val(window).end + 1, 9, 59, 59))

\* C5 witness: a calendar-driven worker run after a closed day reached the fetcher
C5_Witness ==
    /\ CalendarPath
    /\ entry = "worker"
    /\ Val(window).start < Val(window).end
    /\ end_et = Some(Instant(today, 9, 59, 59))

\* the holiday closures configured for a year; none for an unconfigured year
C6_Holidays(y) ==
    CASE y = 2025 -> HOLIDAY_CLOSURES_2025
      [] y = 2026 -> HOLIDAY_CLOSURES_2026
      [] OTHER -> {}

\* the special open Sundays configured for a year
C6_SpecialSundays(y) ==
    CASE y = 2025 -> SPECIAL_OPEN_SUNDAYS_2025
      [] y = 2026 -> SPECIAL_OPEN_SUNDAYS_2026
      [] OTHER -> {}

\* C6: is_business_day(d) is closed on a holiday closure of d's year, otherwise
\* on a Sunday open exactly on that year's special open Sundays, otherwise open;
\* a year without data is Monday to Saturday open and Sunday closed.
C6_IsBusinessDayReference ==
    is_open # None =>
        /\ Val(is_open) =
             ( /\ today \notin C6_Holidays(YearOf(today))
               /\ (Weekday(today) = 6 => today \in C6_SpecialSundays(YearOf(today))) )
        /\ (YearOf(today) \notin {2025, 2026} => Val(is_open) = (Weekday(today) # 6))

\* C6 witness: is_business_day answered closed for a Sunday that is a holiday
\* closure (2026-05-24)
C6_Witness ==
    /\ is_open = Some(FALSE)
    /\ Weekday(today) = 6
    /\ today \in HOLIDAY_CLOSURES_2026

\* C13: on the CLI and on the job worker, a request whose explicit end date
\* is before its explicit start date ends in an error; it never gets to the
\* point where the window is handed on to fetch orders.
C13_InvertedRangeRejected ==
    ( /\ arg_start # None
      /\ arg_end # None
      /\ Val(arg_end) < Val(arg_start)
      /\ pc # "start" ) => pc = "error"

\* C14: find_last_open_day(today) returns an open day that lies at least one
\* and at most seven days before today, for today in the configured years
\* 2025 and 2026 and in the years around them.
C14_LastOpenDayWithinSevenSteps ==
    window # None =>
        /\ today - Val(window).start >= 1
        /\ today - Val(window).start <= 7
        /\ is_business_day(Val(window).start)

\* C14 witness: the longest walk of the configured calendar, four steps over
\* a holiday, a closed Sunday and another holiday
C14_Witness ==
    /\ window # None
    /\ today - Val(window).start = 4
    /\ (today - 1) \in holiday_set(YearOf(today - 1))
    /\ Weekday(today - 2) = 6

\* C23: every window handed to the order fetcher, by the calendar-driven path
\* or by an explicit date range that was not rejected, starts before it ends:
\* start_et < end_et.
C23_WindowStartsBeforeEnd ==
    pc = "fetch" => Val(start_et) < Val(end_et)

-----------------------------------------------------------------------------
(* Claims about the report attempted day after day, checked under          *)
(* SpecSeries                                                              *)

\* C21: when the calendar-driven report is attempted on every consecutive
\* day, the window of each run that executes is not empty and starts exactly
\* one second after the window of the previous executed run ended: the
\* windows tile the whole seconds after the first window's start, each second
\* lying in exactly one window.
C21_WindowsTile ==
    pc = "fetch" =>
        /\ Val(start_et) <= Val(end_et)
        /\ prev_end_et # None => Val(start_et) = Val(prev_end_et) + 1

\* a run after a closure of three days, following an earlier executed run
C21_Witness ==
    /\ pc = "fetch"
    /\ prev_end_et # None
    /\ today - Val(start_date) = 4
    /\ Val(start_et) = Val(prev_end_et) + 1

-----------------------------------------------------------------------------
(* Aggregation claims, checked under SpecAgg                               *)

\* the buckets that hold an entry for a product id
BucketsHolding(pid) == {b \in BucketNames : Bucket(b)[pid] # None}

\* online-sold plus pos-sold of a product over the entries of all four buckets
SoldTotal(pid) ==
    LET sold(b) == IF Bucket(b)[pid] = None THEN 0
                   ELSE Val(Bucket(b)[pid]).ol_sold + Val(Bucket(b)[pid]).pos_sold
    IN  sold("main") + sold("backorder") + sold("out_of_stock") + sold("preorder")

\* C1: after aggregate_products has run, every product id referenced by a line
\* item that was not excluded appears in exactly one of the four buckets.
C1_ExactlyOneBucket ==
    apc = "done" => \A pid \in seen_pids : Cardinality(BucketsHolding(pid)) = 1

\* the latest iteration reached the bucket selection
LastAdded == last # None /\ Val(last).outcome = "added"

\* the product of the latest line item
LastProduct == Val(Val(Val(last).item.variant).product)

\* the available figure of the latest line item as C2 states it: the enrichment
\* snapshot's when the product has one, otherwise the payload's totalInventory
C2_Available ==
    IF product_details[LastProduct.id] # None
    THEN Val(product_details[LastProduct.id]).available
    ELSE LastProduct.totalInventory

\* the collection list of the latest line item: the snapshot's, or empty
C2_Collections ==
    IF product_details[LastProduct.id] # None
    THEN Val(product_details[LastProduct.id]).collections
    ELSE <<>>

\* C2: the bucket of a line item is PREORDER when the collection list holds
\* "Preorder", else BACKORDER when available is known and negative, else
\* OUT_OF_STOCK when known and zero, else MAIN (known and positive, or unknown);
\* available is the enrichment snapshot's when the product has one, otherwise the
\* payload's totalInventory; the line item's product has an entry in that bucket.
C2_BucketPrecedence ==
    LastAdded =>
        /\ Val(last).target =
              ( IF \E i \in DOMAIN C2_Collections : C2_Collections[i] = PREORDER
                    THEN "preorder"
                ELSE IF C2_Available # None /\ Val(C2_Available) < 0 THEN "backorder"
                ELSE IF C2_Available # None /\ Val(C2_Available) = 0 THEN "out_of_stock"
                ELSE "main" )
        /\ Bucket(Val(last).target)[LastProduct.id] # None
        /\ Val(Bucket(Val(last).target)[LastProduct.id]).available = C2_Available

\* C2 witness: a line item whose payload reports stock while the enrichment
\* snapshot reports available = -3 outside the Preorder collection lands in the
\* backorder bucket
C2_Witness ==
    /\ LastAdded
    /\ product_details[LastProduct.id] # None
    /\ Val(product_details[LastProduct.id]).available = Some(-3)
    /\ LastProduct.totalInventory = Some(2)
    /\ Val(last).target = "backorder"
    /\ backorder_sales[LastProduct.id] # None

\* C7: for every product, online-sold plus pos-sold over its bucket entries
\* equals the summed quantity of its line items that were not excluded.
C7_QuantityConservation ==
    apc = "done" => \A pid \in Products : SoldTotal(pid) = qty_in[pid]

\* C7 witness: a finished run in which one product was sold online and at the
\* point of sale, three units in all
C7_Witness ==
    /\ apc = "done"
    /\ \E pid \in seen_pids, b \in BucketNames :
          /\ Bucket(b)[pid] # None
          /\ Val(Bucket(b)[pid]).ol_sold > 0
          /\ Val(Bucket(b)[pid]).pos_sold > 0
          /\ qty_in[pid] = 3

\* the title the latest iteration tested: the snapshot's, or the payload's
C8_Title ==
    IF product_details[LastProduct.id] # None
    THEN Val(product_details[LastProduct.id]).title
    ELSE LastProduct.title

\* C8: a line item is excluded exactly when its product id is in the blacklist
\* or its product title starts, case-insensitively, with "Cookbook Club".
C8_ExcludedIffPrefix ==
    (last # None /\ Val(last).outcome \in {"added", "excluded"}) =>
        ( Val(last).outcome = "excluded"
          <=> \/ LastProduct.id \in BLACKLISTED_PRODUCT_IDS
              \/ StartsWith(Lower(C8_Title), Lower(BLACKLISTED_TITLE_PREFIX)) )

-----------------------------------------------------------------------------
(* Fetcher claims, checked under SpecFetch                                 *)

\* the processed instant of a collected record, or None
RecordInstant(r) ==
    IF fetcher = "daily"
    THEN IF r.processedAt # None /\ Val(r.processedAt).parseable
         THEN Some(Val(r.processedAt).instant) ELSE None
    ELSE Some(r.processed_at_utc)

\* C10: every record the fetcher has collected, and so every record it returns,
\* has a parseable processed timestamp inside [start, end]; nothing else is
\* handed on.
C10_RecordsInsideWindow ==
    \A i \in 1..Len(records) :
        /\ RecordInstant(records[i]) # None
        /\ f_start <= Val(RecordInstant(records[i]))
        /\ Val(RecordInstant(records[i])) <= f_end

\* C10 witness: a fetch returned a record after rejecting an order outside the window
C10_Witness ==
    /\ fpc = "done"
    /\ Len(records) > 0
    /\ drift > 0

\* the weekly fetcher accepted the order of the latest edge
C17_Accepted ==
    /\ fetcher = "weekly"
    /\ last_edge # None
    /\ Val(last_edge).outcome = "accepted"

\* the rows collected for the order of the latest edge
C17_IsOfLastOrder(r) == r.order_id = edges_seen
C17_RowsOfLastOrder == SelectSeq(records, C17_IsOfLastOrder)

C17_Positive(li) ==
    li.unfulfilledQuantity # None /\ Val(li.unfulfilledQuantity) > 0
C17_PositiveWithProduct(li) == C17_Positive(li) /\ li.product_id # None

\* C17 as claimed: of an order inside the window, exactly the line items with
\* an unfulfilled quantity > 0 are kept, one row each, and the line items with
\* an unfulfilled quantity <= 0 or missing are dropped.
C17_PositiveLinesKept ==
    C17_Accepted =>
        /\ Len(C17_RowsOfLastOrder) = Len(SelectSeq(Val(last_edge).lineItems, C17_Positive))
        /\ \A i \in 1..Len(C17_RowsOfLastOrder) : C17_RowsOfLastOrder[i].qty_unfulfilled > 0

\* C17 as amended: of an order inside the window, exactly the line items with
\* an unfulfilled quantity > 0 and a product reference are kept, one row each
\* and in their order; every other line item is dropped, and the order is not.
C17_PositiveProductLinesKept ==
    C17_Accepted =>
        LET kept == SelectSeq(Val(last_edge).lineItems, C17_PositiveWithProduct) IN
        /\ Len(C17_RowsOfLastOrder) = Len(kept)
        /\ \A i \in 1..Len(kept) :
              /\ C17_RowsOfLastOrder[i].product_id = Val(kept[i].product_id)
              /\ C17_RowsOfLastOrder[i].qty_unfulfilled = Val(kept[i].unfulfilledQuantity)

\* C17 witness: a partially fulfilled order inside the window, one line item
\* kept and one dropped
C17_Witness ==
    /\ C17_Accepted
    /\ Len(Val(last_edge).lineItems) = 2
    /\ Len(C17_RowsOfLastOrder) = 1
    /\ \E i \in 1..2 : Val(last_edge).lineItems[i].unfulfilledQuantity = Some(0)

\* C20: once the request for a page of orders has failed, the daily run has
\* failed: fetch_24h_orders has not returned the records of the pages before
\* it, and main has not gone on to build buckets from them.
C20_PageFailureIsFatal ==
    (fetcher = "daily" /\ f_error = Some("RuntimeError")) =>
        /\ fpc = "raised"
        /\ fpc \notin {"done", "aggregating"}

\* C20 witness: the request for the second page failed after the first page
\* had put a record into the list
C20_Witness ==
    /\ fetcher = "daily"
    /\ f_error = Some("RuntimeError")
    /\ pages = 1
    /\ after # None
    /\ Len(records) > 0


\* the request that is about to be sent carries the right cursor: none for
\* the first request, the cursor of the last record of the previous page for
\* every later one, and a later request is sent only after a page that
\* announced a next page
C24_CursorChained ==
    (fetcher = "daily" /\ fpc = "request") =>
        IF pages = 0 THEN after = None
        ELSE has_next /\ after # None /\ after = last_cursor

\* every record of every page received was considered once when the loop ended
C24_AllConsidered ==
    (fetcher = "daily" /\ fpc \in {"done", "aggregating"}) =>
        /\ page_left = 0
        /\ Len(records) + drift <= edges_seen

\* C24: fetch_24h_orders asks for the pages one after another, the first
\* request without cursor and every later one with the cursor of the last
\* record of the page before, stops at the first page whose hasNextPage is
\* false, and for every sequence of pages the data source returns, a page
\* without records included, ends without error having considered every
\* record of every page once.
C24_SequentialPagination ==
    /\ C24_CursorChained
    /\ C24_AllConsidered
    /\ (fetcher = "daily" /\ fpc = "raised") => f_error = Some("RuntimeError")

-----------------------------------------------------------------------------
(* Risk summary claims, checked under SpecRisk                             *)

InSummary(pid) == \E i \in 1..Len(summary_rows) : summary_rows[i].product_id = pid

HasQualifyingRow(pid) == \E i \in 1..Len(fetched_rows) : fetched_rows[i].product_id = pid

\* not in the "Preorder" collection, total inventory known and <= 0, committed > 0
C9_RiskFlagged(pid) ==
    /\ product_nodes[pid] # None
    /\ ~InList(PREORDER, Val(product_nodes[pid]).collections)
    /\ Val(product_nodes[pid]).totalInventory # None
    /\ Val(Val(product_nodes[pid]).totalInventory) <= 0
    /\ committed_total(Val(product_nodes[pid]).quantities) > 0

\* C9: once the summary is computed, a product with a qualifying unfulfilled
\* line item is in the risk summary if and only if it is not in the "Preorder"
\* collection, its total inventory is known and <= 0 and its committed
\* quantity is > 0.
C9_InSummaryIffRiskFlagged ==
    (rpc = "done" /\ fetched_rows # <<>>) =>
        \A pid \in RiskProducts :
            HasQualifyingRow(pid) => (InSummary(pid) <=> C9_RiskFlagged(pid))

\* the line item of the latest iteration has no variant, or a variant without product
C12_Malformed(l) ==
    /\ l # None
    /\ \/ Val(l).item.variant = None
       \/ Val(Val(l).item.variant).product = None

\* C12: an iteration of aggregate_products on a line item without variant, or
\* whose variant has no product, does not raise, changes no bucket and no
\* counter, and leaves the loop running for the items that follow.
C12_MalformedItemSkipped ==
    [][ (n_items' = n_items + 1 /\ C12_Malformed(last'))
            => /\ apc' = "loop"
               /\ UNCHANGED <<main_sales, backorder_sales, oos_sales, preorder_sales,
                              seen_pids, qty_in>> ]_vars

\* the earliest processed instant among the rows of a product that main kept
C15_Earliest(pid) == Min(plist_instants(rows, pid))

\* C15 (checked under SpecAge): for every row of the risk summary, age_days is
\* the number of whole days in now - earliest, and age_bucket is the one of
\* "0-7", "8-14", "15-30", "31-60", "60+" whose range holds age_days.
C15_AgeDaysAndBucket ==
    \A i \in 1..Len(summary_rows) :
        LET r   == summary_rows[i]
            age == NowUtc - C15_Earliest(r.product_id)
        IN  /\ r.age_days * 86400 <= age
            /\ age < (r.age_days + 1) * 86400
            /\ r.age_days <= 7 <=> r.age_bucket = "0-7"
            /\ (8 <= r.age_days /\ r.age_days <= 14) <=> r.age_bucket = "8-14"
            /\ (15 <= r.age_days /\ r.age_days <= 30) <=> r.age_bucket = "15-30"
            /\ (31 <= r.age_days /\ r.age_days <= 60) <=> r.age_bucket = "31-60"
            /\ r.age_days > 60 <=> r.age_bucket = "60+"

\* C15 witness: a product whose earliest order is forty days and an hour old,
\* next to a younger order of the same product, is reported as "31-60"
C15_Witness ==
    /\ rpc = "done"
    /\ Len(fetched_rows) = 2
    /\ fetched_rows[1].processed_at_utc > fetched_rows[2].processed_at_utc
    /\ Len(summary_rows) = 1
    /\ summary_rows[1].age_days = 40
    /\ summary_rows[1].age_bucket = "31-60"

\* the snapshot of the product of a row that main kept
C16_Product(i) == product_cache[rows[i].product_id]

C18_OldestFirst ==
    \A i \in 1..Len(summary_rows) : \A j \in i..Len(summary_rows) :
        summary_rows[i].age_days >= summary_rows[j].age_days

\* C18 witness: two risk products, the one met first in the rows being the
\* younger, so that the summary lists them the other way round
C18_Witness ==
    /\ rpc = "done"
    /\ Len(summary_rows) = 2
    /\ summary_rows[1].age_days > summary_rows[2].age_days
    /\ fetched_rows[1].product_id = summary_rows[2].product_id


\* the processed instants of the line items the fetch returned for a product
C26_Instants(pid) ==
    {fetched_rows[j].processed_at_utc :
        j \in {k \in 1..Len(fetched_rows) : fetched_rows[k].product_id = pid}}

\* C26: for every row of the risk summary, earliest_order_utc and
\* latest_order_utc are the least and the greatest processed instant among
\* the line items the fetch returned for the product, so earliest <= latest,
\* and age_days is the number of whole days from the earliest to now.
C26_EarliestLatest ==
    \A i \in 1..Len(summary_rows) :
        LET r == summary_rows[i]
            S == C26_Instants(r.product_id)
        IN  /\ r.earliest_order_utc \in S
            /\ r.latest_order_utc \in S
            /\ \A t \in S : r.earliest_order_utc <= t /\ t <= r.latest_order_utc
            /\ r.earliest_order_utc <= r.latest_order_utc
            /\ r.age_days = (NowUtc - r.earliest_order_utc) \div 86400

\* C26 witness: three line items of one risk product, the first of them
\* neither the oldest nor the youngest
C26_Witness ==
    /\ rpc = "done"
    /\ Len(fetched_rows) = 3
    /\ Len(summary_rows) = 1
    /\ \A j \in 1..3 : fetched_rows[j].product_id = summary_rows[1].product_id
    /\ summary_rows[1].earliest_order_utc < fetched_rows[1].processed_at_utc
    /\ fetched_rows[1].processed_at_utc < summary_rows[1].latest_order_utc
    /\ summary_rows[1].age_days = 61


\* C30: the is_preorder flag of every product snapshot agrees with the daily
\* sales report's test on the same collection titles: the snapshot is marked
\* preorder exactly when "Preorder" is one of its collections.
C30_SnapshotPreorderMatchesDaily ==
    \A pid \in DOMAIN product_cache :
        product_cache[pid].is_preorder
            <=> is_preorder_daily(product_cache[pid].collections)

-----------------------------------------------------------------------------
(* Enrichment claims, checked under SpecEnrich                             *)

\* the products whose enrichment request failed
EnrichFailed == {p \in e_ids : e_answers[p] # None /\ Val(e_answers[p]).raised}

\* C11: when the enrichment request of some products fails, the run is not
\* aborted: no exception leaves fetch_product_details, and once it has
\* returned every other product that the shop answered for is enriched.
C11_FailureDoesNotAbort ==
    EnrichFailed # {} =>
        /\ epc # "raised"
        /\ epc \in {"returned", "aggregated"} =>
              \A p \in e_ids \ EnrichFailed :
                  (e_answers[p] # None /\ Val(e_answers[p]).product # None)
                      => e_details[p] # None

-----------------------------------------------------------------------------
(* Claims about the bucket entries, checked under SpecAgg                  *)

\* the iteration that just ended added its line item to a bucket
C22_Added == n_items' = n_items + 1 /\ Val(last').outcome = "added"

\* the variant and the product of that line item
C22_Variant == Val(Val(last').item.variant)
C22_Pid == Val(C22_Variant.product).id

\* the entry of that product in the bucket the line item went to, before and
\* after the iteration
C22_Before == Bucket(Val(last').target)[C22_Pid]
BucketAfter(name) ==
    CASE name = "main" -> main_sales'
      [] name = "backorder" -> backorder_sales'
      [] name = "out_of_stock" -> oos_sales'
      [] name = "preorder" -> preorder_sales'

C22_After == Val(BucketAfter(Val(last').target)[C22_Pid])

\* C22: when the product of a line item already has an entry in the bucket
\* the line item goes to, the iteration sets the entry's title, available,
\* incoming, price, vendor and collections to the values resolved for this
\* line item, and sets author (sku) and isbn (barcode) to this line item's
\* value only if that value is non-empty, keeping the entry's value otherwise:
\* a non-empty author or isbn is never blanked.
C22_RefreshKeepsKnownSkuBarcode ==
    [][ (C22_Added /\ C22_Before # None) =>
          LET d   == resolve_details(product_details, Val(C22_Variant.product))
              old == Val(C22_Before)
              sku == C22_Variant.sku
              barcode == C22_Variant.barcode
          IN  /\ C22_After.title = d.title
              /\ C22_After.available = d.available
              /\ C22_After.incoming = d.incoming
              /\ C22_After.price = d.price
              /\ C22_After.vendor = d.vendor
              /\ C22_After.collections = d.collections
              /\ C22_After.author =
                    IF sku # None /\ Val(sku) # "" THEN Val(sku) ELSE old.author
              /\ C22_After.isbn =
                    IF barcode # None /\ Val(barcode) # "" THEN Val(barcode) ELSE old.isbn
              /\ old.author # "" => C22_After.author # ""
              /\ old.isbn # "" => C22_After.isbn # "" ]_vars

\* C22 witness: an entry created by a line item with sku and barcode was
\* refreshed by a line item of the same product with an empty sku, no barcode
\* and another title: the entry has the new title and the old sku and barcode
C22_Witness ==
    /\ n_items = 2
    /\ LastAdded
    /\ LastProduct.id = P1
    /\ Val(Val(last).item.variant).sku = Some("")
    /\ main_sales[P1] # None
    /\ Val(main_sales[P1]).title = T_GIFT
    /\ Val(main_sales[P1]).author = "Nosrat"
    /\ Val(main_sales[P1]).isbn = "9781476753836"

\* a counter of the entry a product has in a bucket, 0 if it has none
C25_Sold(bucket, pid, counter) ==
    IF bucket[pid] = None THEN 0
    ELSE IF counter = "ol_sold" THEN Val(bucket[pid]).ol_sold
    ELSE Val(bucket[pid]).pos_sold

\* the order of the latest iteration counts as online
C25_Online ==
    LET order == Val(last').order IN
    \/ order.sourceName = Some("web")
    \/ (order.channel # None /\ Val(order.channel).handle = Some("online_store"))

\* C25: an iteration that does not skip its line item adds the quantity to
\* one counter of one bucket entry, the one of the line item's product in the
\* chosen bucket: to ol_sold if the order's sourceName is "web" or its channel
\* handle is "online_store", to pos_sold otherwise (no sourceName and no
\* channel included); every other counter of every entry stays as it was.
C25_OneCounterByChannel ==
    [][ C22_Added =>
          LET hit == IF C25_Online THEN "ol_sold" ELSE "pos_sold"
              q   == Val(last').item.quantity
              t   == Val(last').target
          IN  /\ \A c \in {"ol_sold", "pos_sold"} :
                    C25_Sold(BucketAfter(t), C22_Pid, c) =
                        C25_Sold(Bucket(t), C22_Pid, c) + (IF c = hit THEN q ELSE 0)
              /\ \A b \in BucketNames, p \in Products :
                    (b # t \/ p # C22_Pid) => BucketAfter(b)[p] = Bucket(b)[p] ]_vars

\* C25 witness: a product sold by a web order and then by an order without
\* sourceName and channel: the second quantity went to pos_sold
C25_Witness ==
    /\ LastAdded
    /\ Val(last).order = [sourceName |-> None, channel |-> None]
    /\ Val(last).counter = "pos_sold"
    /\ LET e == Val(Bucket(Val(last).target)[LastProduct.id])
       IN  /\ e.pos_sold = Val(last).item.quantity
           /\ e.ol_sold > 0

\* the label of the line item of the latest iteration
C27_Label == attr_label(Val(last').item.customAttributes)

\* C27: the attributes label of a bucket entry is the label of the line item
\* that created the entry, one of "", "Signed", "Bookplate" and
\* "Signed, Bookplate"; a later line item of the same product leaves it as it
\* is, whatever its own label, and the bucket a line item goes to is decided
\* by the collections and the available figure alone.
C27_LabelFixedByFirstItem ==
    [][ C22_Added =>
          LET d == resolve_details(product_details, Val(C22_Variant.product))
          IN  /\ C27_Label \in {"", "Signed", "Bookplate", "Signed, Bookplate"}
              /\ C22_After.attributes =
                    IF C22_Before = None THEN C27_Label
                    ELSE Val(C22_Before).attributes
              /\ Val(last').target =
                    bucket_for(is_preorder_daily(d.collections), d.available) ]_vars

\* C27 witness: an entry created by a signed copy was extended by a signed
\* copy with a bookplate and still reads "Signed"
C27_Witness ==
    /\ LastAdded
    /\ attr_label(Val(last).item.customAttributes) = "Signed, Bookplate"
    /\ Val(Bucket(Val(last).target)[LastProduct.id]).attributes = "Signed"

-----------------------------------------------------------------------------
(* Claims about the job worker, checked under SpecJobs                     *)

\* process_job is over for the job, by return or by exception
C28_Over(j) == j_end[j] # "none"

\* the terminal statuses among the statuses written for the job
C28_Terminal(j) ==
    {i \in 1..Len(j_writes[j]) : j_writes[j][i] \in {"success", "failed", "cancelled"}}

\* "running" was written for the job before its executor was invoked
C28_RunningFirst(j) ==
    j_exec[j] # "none" => (j_writes[j] # <<>> /\ j_writes[j][1] = "running")

\* the statuses written for the job are "running" and then the one terminal
\* status that the end of its executor calls for
C28_ByExecutor(j) ==
    /\ j_writes[j] =
          <<"running", IF j_exec[j] = "returned" THEN "success" ELSE "failed">>
    /\ j_row[j].status = j_writes[j][2]
    /\ IF j_exec[j] = "returned"
         THEN j_row[j].error = None
         ELSE /\ j_exec[j] = "raised" \/ j_report[j] \notin REPORT_EXECUTORS
              /\ j_row[j].error # None

C28_Statuses ==
    \A j \in Jobs :
        /\ C28_RunningFirst(j)
        /\ (C28_Over(j) /\ ~j_write_failed[j]) => C28_ByExecutor(j)
        /\ j_end[j] = "returned" =>
              /\ C28_Terminal(j) = {Len(j_writes[j])}
              /\ j_row[j].status = j_writes[j][Len(j_writes[j])]
              /\ j_row[j].status # "running"
              /\ j_row[j].status = "success" => j_exec[j] = "returned"
        /\ j_end[j] = "raised" => (j_write_failed[j] /\ C28_Terminal(j) = {})

-----------------------------------------------------------------------------
(* Claims about the orders since the LOP order, checked under SpecLop      *)

\* the order was created at or after the LOP order
C29_AtOrAfter(o) == o.createdAt # None /\ Val(o.createdAt).instant >= lop_dt

\* C29: fetch_orders_since_lop returns every order it fetched that was
\* created at or after the most recent LOP order, in the order fetched, and
\* no order created before it.
C29_AtOrAfterLopReturned ==
    lpc = "done" => strict_collected = SelectSeq(collected, C29_AtOrAfter)

====
